---- MODULE Spec2Model ----
(***************************************************************************)
(* nupatch: the minified-source patch engine (src/src/core.rs) and the     *)
(* backup / restore helpers it drives (src/src/integrity.rs).              *)
(*                                                                         *)
(* Source text is modelled as a sequence of lexical fragments ("tokens").  *)
(* A token is a record [k, a, b, n]: k names the fragment, a and b are the *)
(* minified identifiers it mentions, n is a byte count (pads only).  Every *)
(* literal or regular expression the code searches for is a run of whole   *)
(* tokens, so str::find / contains / regex captures become searches over   *)
(* token runs, and byte offsets are sums of token widths.                  *)
(*                                                                         *)
(*   k              text (identifiers a, b are one byte each)       bytes  *)
(*   zshI           a.includes("zsh")                                 17   *)
(*   qZsh           ?a.Zsh                                             6   *)
(*   pwsh           a.includes("pwsh")                                18   *)
(*   nuT            a.includes("nu")?b.Naive:                         25   *)
(*   psC            a.PowerShell:                                     13   *)
(*   nvB            a.Naive}                                           8   *)
(*   sysNu          a("nu")?b.Naive:                                  16   *)
(*   fnHead         function a(x){try{return                          24   *)
(*   fex            (0,a.findActualExecutable)                        26   *)
(*   fnTail         (x,[]).cmd!==x}                                   15   *)
(*   nuArgs         ("nu",[])                                          9   *)
(*   caseZsh        case a.Zsh:                                       11   *)
(*   newX           new a(                                             6   *)
(*   caseNaive      case a.Naive:                                     13   *)
(*   cwdSh          process.cwd(),{shell:                             21   *)
(*   spreadSh       n,{...e,shell:                                    14   *)
(*   shellQ         a?.shell??                                        10   *)
(*   uthQ           a?.userTerminalHint??                             21   *)
(*   uthOr          a?.userTerminalHint||                             21   *)
(*   swUth          switch(T(a?.userTerminalHint                      28   *)
(*   dflt           default:                                           8   *)
(*   retSh          return process.env.SHELL||"/bin/sh"               35   *)
(*   caseZshLight   case a.ZshLight:                                  16   *)
(*   np             {const _np=                                       11   *)
(*   cmdRet         .cmd;return                                       12   *)
(*   promise        Promise.resolve(                                  16   *)
(*   npOrEnv        (_np!=="nu"?_np:void 0)||process.env.SHELL||      57   *)
(*                  "/bin/sh",...                                          *)
(*   optsEnd        a})))}                                             6   *)
(*   cmdIf          .cmd;if(_np!=="nu")return _np}                    30   *)
(*   retWin         return process.env.SHELL||("win32"===             69   *)
(*                  process.platform?ne():"/bin/sh")                       *)
(*   fexR           (0,a.r)   (the helper under another name)          7   *)
(*   nl             a line break                                       1   *)
(*   uni            one character outside ASCII, 3 bytes in UTF-8      3   *)
(*   pad            n bytes of unrelated ASCII text                    n   *)
(*   msg            a fixed message / label string named a             0   *)
(***************************************************************************)
EXTENDS Integers, Sequences, FiniteSets, TLC

Tok(k, a, b) == [k |-> k, a |-> a, b |-> b, n |-> 0]

Pad(n) == [k |-> "pad", a |-> "", b |-> "", n |-> n]

Msg(s) == [k |-> "msg", a |-> s, b |-> "", n |-> 0]

Num(n) == [k |-> "num", a |-> "", b |-> "", n |-> n]

Width(t) ==
    CASE t.k = "zshI" -> 17 [] t.k = "qZsh" -> 6 [] t.k = "pwsh" -> 18
      [] t.k = "nuT" -> 25 [] t.k = "psC" -> 13 [] t.k = "nvB" -> 8
      [] t.k = "sysNu" -> 16 [] t.k = "fnHead" -> 24 [] t.k = "fex" -> 26
      [] t.k = "fnTail" -> 15 [] t.k = "nuArgs" -> 9 [] t.k = "caseZsh" -> 11
      [] t.k = "newX" -> 6 [] t.k = "caseNaive" -> 13 [] t.k = "cwdSh" -> 21
      [] t.k = "spreadSh" -> 14 [] t.k = "shellQ" -> 10 [] t.k = "uthQ" -> 21
      [] t.k = "uthOr" -> 21 [] t.k = "swUth" -> 28 [] t.k = "dflt" -> 8
      [] t.k = "retSh" -> 35 [] t.k = "caseZshLight" -> 16 [] t.k = "np" -> 11
      [] t.k = "cmdRet" -> 12 [] t.k = "promise" -> 16 [] t.k = "npOrEnv" -> 57
      [] t.k = "optsEnd" -> 6 [] t.k = "cmdIf" -> 30 [] t.k = "retWin" -> 69
      [] t.k = "fexR" -> 7 [] t.k = "nl" -> 1 [] t.k = "uni" -> 3
      [] t.k = "pad" -> t.n
      [] OTHER -> 0

Min(S) == CHOOSE x \in S : \A y \in S : x <= y

Max(S) == CHOOSE x \in S : \A y \in S : x >= y

RECURSIVE ByteLen(_)
ByteLen(code) ==
    IF code = <<>> THEN 0 ELSE Width(Head(code)) + ByteLen(Tail(code))

\* Byte offset at which token i of code starts (code.len() for i = Len + 1).
Off(code, i) == ByteLen(SubSeq(code, 1, i - 1))

\* Token positions at which the literal pat (a run of tokens) occurs.
Occ(code, pat) ==
    {i \in 1..(Len(code) + 1 - Len(pat)) : SubSeq(code, i, i + Len(pat) - 1) = pat}

Contains(code, pat) == Occ(code, pat) # {}

\* code[..i] + ins + code[i..] at the byte offset where token i starts.
Splice(code, i, ins) ==
    SubSeq(code, 1, i - 1) \o ins \o SubSeq(code, i, Len(code))

\* Faulty variant of Replacen1, used to test the properties below: nothing is replaced.
Replacen1_Nothing(code, find, replace) == code

\* str::replacen(find, replace, 1): the first occurrence, if any.
Replacen1(code, find, replace) ==
    IF Occ(code, find) = {} THEN code
    ELSE LET i == Min(Occ(code, find))
         IN  SubSeq(code, 1, i - 1) \o replace
               \o SubSeq(code, i + Len(find), Len(code))

\* str::is_char_boundary(off): every byte of the other fragments is an
\* ASCII character of its own; only the inside of a 3-byte character is
\* not a boundary.  Slicing a str at such an offset panics.
CharBoundary(code, off) ==
    ~\E i \in 1..Len(code) :
        code[i].k = "uni" /\ Off(code, i) < off /\ off < Off(code, i + 1)

\* &code[lo..hi] as text: the bytes clipped off the first token, the tokens
\* the byte range touches, the bytes clipped off the last token.
Slice(code, lo, hi) ==
    LET touched == {i \in 1..Len(code) :
                      Off(code, i) < hi /\ Off(code, i + 1) > lo /\ Width(code[i]) > 0}
    IN  IF touched = {} THEN <<>>
        ELSE LET f == Min(touched)
                 l == Max(touched)
             IN  <<Num(lo - Off(code, f))>> \o SubSeq(code, f, l)
                   \o <<Num(Off(code, l + 1) - hi)>>

(***************************************************************************)
(* Pattern discovery                                                       *)
(***************************************************************************)

\* Matches of (\w+)\.includes\("zsh"\)\?(\w+)\.Zsh : start positions.
ZshTernaryMatches(code) ==
    {i \in 1..(Len(code) - 1) : code[i].k = "zshI" /\ code[i + 1].k = "qZsh"}

\* The `new X(` tokens that `.*?new\s+(\w+)\(` can reach from position i:
\* `.` does not match a line break.
NewAfter(code, i) ==
    {j \in (i + 1)..Len(code) :
        /\ code[j].k = "newX"
        /\ \A m \in (i + 1)..(j - 1) : code[m].k # "nl"}

\* case\s*<enum>\.Zsh\s*:.*?new\s+(\w+)\(   -> Option<String> ("" is None)
LazyExecOf(code, enum_var) ==
    LET starts == {i \in Occ(code, <<Tok("caseZsh", enum_var, "")>>) :
                      NewAfter(code, i) # {}}
    IN  IF starts = {} THEN ""
        ELSE code[Min(NewAfter(code, Min(starts)))].a

\* Method A: case\s*<enum>\.Naive\s*:.*?new\s+\w+\(.*?new\s+(\w+)\(
NaiveExecA(code, enum_var) ==
    LET two(i) == /\ NewAfter(code, i) # {}
                  /\ NewAfter(code, Min(NewAfter(code, i))) # {}
        starts == {i \in Occ(code, <<Tok("caseNaive", enum_var, "")>>) : two(i)}
    IN  IF starts = {} THEN ""
        ELSE code[Min(NewAfter(code, Min(NewAfter(code, Min(starts)))))].a

\* Method C: new\s+(\w+)\(process\.cwd\(\)\s*,\s*\{shell:
NaiveExecC(code) ==
    LET ms == {i \in 1..(Len(code) - 1) : code[i].k = "newX" /\ code[i + 1].k = "cwdSh"}
    IN  IF ms = {} THEN "" ELSE code[Min(ms)].a

\* Method D: new\s+(\w+)\(\w+,\s*\{\.\.\.\w+\s*,\s*shell\s*:
NaiveExecD(code) ==
    LET ms == {i \in 1..(Len(code) - 1) : code[i].k = "newX" /\ code[i + 1].k = "spreadSh"}
    IN  IF ms = {} THEN "" ELSE code[Min(ms)].a

\* Faulty variant of NaiveExecOf, used to test the properties below: Method D is tried before Method C.
NaiveExecOf_SpreadFirst(code, enum_var) ==
    LET a == IF Contains(code, <<Tok("caseNaive", enum_var, "")>>)
             THEN NaiveExecA(code, enum_var) ELSE ""
        d == IF a = "" THEN NaiveExecD(code) ELSE a
    IN  IF d = "" THEN NaiveExecC(code) ELSE d

\* let mut naive_exec = None; Method A; if none, Method C; if none, Method D
NaiveExecOf(code, enum_var) ==
    LET a == IF Contains(code, <<Tok("caseNaive", enum_var, "")>>)
             THEN NaiveExecA(code, enum_var) ELSE ""
        c == IF a = "" THEN NaiveExecC(code) ELSE a
    IN  IF c = "" THEN NaiveExecD(code) ELSE c

\* function\s+(\w+)\(\w+\)\{try\{return(\(0,\w+\.\w+\))\(\w+,\[\]\)\.cmd!==\w+\}
CmdExistsMatches(code) ==
    {i \in 1..(Len(code) - 2) :
        /\ code[i].k = "fnHead"
        /\ code[i + 1].k \in {"fex", "fexR"}
        /\ code[i + 2].k = "fnTail"}

\* code.contains(".includes(\"nu\")?<enum>.Naive")
HasNuDetection(code, enum_var) ==
    \E i \in 1..Len(code) : code[i].k = "nuT" /\ code[i].b = enum_var

\* code.contains("<f>(\"nu\")")
HasSystemNu(code, f) ==
    \E i \in 1..Len(code) : code[i].k = "sysNu" /\ code[i].a = f

\* Faulty variant of HasUth, used to test the properties below: the pattern never matches.
HasUth_NeverMatches(code) == FALSE

\* \.shell\?\?\w+\?\.userTerminalHint\?\?
HasUth(code) ==
    \E i \in 1..(Len(code) - 1) : code[i].k = "shellQ" /\ code[i + 1].k = "uthQ"

\* Faulty variant of discover_vars, used to test the properties below: a missing command-exists helper fails the discovery.
discover_vars_RequiresHelper(code) ==
    IF ZshTernaryMatches(code) = {} \/ CmdExistsMatches(code) = {}
    THEN [ok |-> FALSE, err |-> <<Msg("Cannot find includes(\"zsh\")?<enum>.Zsh pattern")>>]
    ELSE [ok |-> TRUE,
          v |-> [hint_var |-> code[Min(ZshTernaryMatches(code))].a,
                 enum_var |-> code[Min(ZshTernaryMatches(code)) + 1].a,
                 lazy_exec |-> LazyExecOf(code, code[Min(ZshTernaryMatches(code)) + 1].a),
                 naive_exec |-> NaiveExecOf(code, code[Min(ZshTernaryMatches(code)) + 1].a),
                 cmd_exists_fn |-> code[Min(CmdExistsMatches(code))].a,
                 find_exec_call |-> <<code[Min(CmdExistsMatches(code)) + 1]>>,
                 has_naive_case |->
                     Contains(code, <<Tok("caseNaive",
                                          code[Min(ZshTernaryMatches(code)) + 1].a, "")>>),
                 has_nu_detection |->
                     HasNuDetection(code, code[Min(ZshTernaryMatches(code)) + 1].a),
                 has_system_nu |-> HasSystemNu(code, code[Min(CmdExistsMatches(code))].a),
                 has_user_terminal_hint |-> HasUth(code)]]

discover_vars(code) ==
    IF ZshTernaryMatches(code) = {}
    THEN [ok |-> FALSE, err |-> <<Msg("Cannot find includes(\"zsh\")?<enum>.Zsh pattern")>>]
    ELSE
      LET i0 == Min(ZshTernaryMatches(code))
          hint_var == code[i0].a
          enum_var == code[i0 + 1].a
          cm == CmdExistsMatches(code)
          cmd_exists_fn == IF cm = {} THEN "" ELSE code[Min(cm)].a
          find_exec_call == IF cm = {} THEN <<>> ELSE <<code[Min(cm) + 1]>>
      IN  [ok |-> TRUE,
           v |-> [hint_var |-> hint_var,
                  enum_var |-> enum_var,
                  lazy_exec |-> LazyExecOf(code, enum_var),
                  naive_exec |-> NaiveExecOf(code, enum_var),
                  cmd_exists_fn |-> cmd_exists_fn,
                  find_exec_call |-> find_exec_call,
                  has_naive_case |-> Contains(code, <<Tok("caseNaive", enum_var, "")>>),
                  has_nu_detection |-> HasNuDetection(code, enum_var),
                  has_system_nu |-> cmd_exists_fn # "" /\ HasSystemNu(code, cmd_exists_fn),
                  has_user_terminal_hint |-> HasUth(code)]]

\* Faulty variant of quick_detect, used to test the properties below: the system-level check is looked up under the enum name.
quick_detect_WrongHelperName(code) ==
    IF ZshTernaryMatches(code) = {}
    THEN [some |-> FALSE]
    ELSE [some |-> TRUE,
          has_nu |-> HasNuDetection(code, code[Min(ZshTernaryMatches(code)) + 1].a),
          has_system_nu |-> HasSystemNu(code, code[Min(ZshTernaryMatches(code)) + 1].a),
          has_naive_case |->
              Contains(code, <<Tok("caseNaive", code[Min(ZshTernaryMatches(code)) + 1].a, "")>>),
          has_uth |-> HasUth(code)]

\* Option<QuickDetect>: some = FALSE is None.
quick_detect(code) ==
    IF ZshTernaryMatches(code) = {}
    THEN [some |-> FALSE]
    ELSE
      LET enum_var == code[Min(ZshTernaryMatches(code)) + 1].a
          cm == CmdExistsMatches(code)
      IN  [some |-> TRUE,
           has_nu |-> HasNuDetection(code, enum_var),
           has_system_nu |-> cm # {} /\ HasSystemNu(code, code[Min(cm)].a),
           has_naive_case |-> Contains(code, <<Tok("caseNaive", enum_var, "")>>),
           has_uth |-> HasUth(code)]

(***************************************************************************)
(* Step results                                                            *)
(***************************************************************************)

StepOk(name, msg) ==
    [name |-> name, ok |-> TRUE, message |-> msg, skipped |-> FALSE, detail |-> <<>>]

\* Faulty variant of StepFail, used to test the properties below: the result is built by StepResult::skipped.
StepFail_AsSkipped(name, msg) ==
    [name |-> name, ok |-> TRUE, message |-> msg, skipped |-> TRUE, detail |-> <<>>]

StepFail(name, msg) ==
    [name |-> name, ok |-> FALSE, message |-> msg, skipped |-> FALSE, detail |-> <<>>]

\* Faulty variant of StepSkipped, used to test the properties below: the result is not marked skipped.
StepSkipped_NotMarked(name, msg) ==
    [name |-> name, ok |-> TRUE, message |-> msg, skipped |-> FALSE, detail |-> <<>>]

StepSkipped(name, msg) ==
    [name |-> name, ok |-> TRUE, message |-> msg, skipped |-> TRUE, detail |-> <<>>]

\* Faulty variant of WithDetail, used to test the properties below: the detail is dropped.
WithDetail_Dropped(step, detail) == step

WithDetail(step, detail) == [step EXCEPT !.detail = detail]

\* Not a StepResult: the function did not return, a str slice index fell
\* inside a character and the thread panicked.
Panicked ==
    [name |-> "panic", ok |-> FALSE,
     message |-> <<Msg("byte index is not a char boundary")>>,
     skipped |-> FALSE, detail |-> <<>>]

\* {:?} of an Option<String>
DebugOpt(x) == Tok("opt", x, "")

NuRegion == 2000

NuCtxBefore == 40

NuCtxAfter == 60

SysNuCtxAfter == 40

\* Faulty variant of DefaultLookahead, used to test the properties below: the window is a hundred times as wide.
DefaultLookahead_Unbounded == 100 * 10000

DefaultLookahead == 10000

FallbackContext == 500

FaeOffsetInFex == 5

PsOffsetInPsC == 2

(***************************************************************************)
(* Patch: nu detection in detectShellType                                  *)
(***************************************************************************)
patch_nu_detection(code, v) ==
    LET name == "Nu detection"
        zsh == Occ(code, <<Tok("zshI", v.hint_var, "")>>)
        ps_includes == Tok("pwsh", v.hint_var, "")
    IN
    IF v.has_nu_detection
    THEN [code |-> code, step |-> StepSkipped(name, <<Msg("Already present, skipped")>>)]
    ELSE IF zsh = {}
    THEN [code |-> code,
          step |-> StepFail(name, <<Msg("Cannot locate detectShellType region")>>)]
    ELSE
      LET zi == Min(zsh)
          zsh_idx == Off(code, zi)
          region_end == IF zsh_idx + NuRegion < ByteLen(code)
                        THEN zsh_idx + NuRegion ELSE ByteLen(code)
          ps == {j \in zi..Len(code) :
                   code[j] = ps_includes /\ Off(code, j + 1) <= region_end}
      IN
      IF ~CharBoundary(code, region_end)
      THEN [code |-> code, step |-> Panicked]
      ELSE IF ps = {}
      THEN [code |-> code,
            step |-> StepFail(name, <<Msg("Cannot find "), ps_includes,
                                      Msg(" in detectShellType")>>)]
      ELSE
        LET pj == Min(ps)
            insert_at == Off(code, pj)
            insertion == <<Tok("nuT", v.hint_var, v.enum_var)>>
        IN
        IF SubSeq(code, pj, pj + Len(insertion) - 1) = insertion
        THEN [code |-> code,
              step |-> StepSkipped(name,
                          <<Msg("Already present at insertion point, skipped")>>)]
        ELSE
          LET new_code == Splice(code, pj, insertion)
              ctx_start == IF insert_at > NuCtxBefore THEN insert_at - NuCtxBefore ELSE 0
              full == insert_at + ByteLen(insertion) + NuCtxAfter
              ctx_end == IF full < ByteLen(new_code) THEN full ELSE ByteLen(new_code)
              detail == <<Msg("Insertion: ")>> \o insertion \o <<Msg("Context:   ...")>>
                          \o Slice(new_code, ctx_start, ctx_end) \o <<Msg("...")>>
          IN  IF ~CharBoundary(new_code, ctx_start) \/ ~CharBoundary(new_code, ctx_end)
              THEN [code |-> code, step |-> Panicked]
              ELSE [code |-> new_code,
                    step |-> WithDetail(
                               StepOk(name, <<Msg("Inserted before PowerShell check")>>),
                               detail)]

(***************************************************************************)
(* Patch: system-level nu detection in detectShellType                     *)
(***************************************************************************)
patch_system_nu_detection(code, v) ==
    LET name == "System nu detection"
        tail_pattern == <<Tok("psC", v.enum_var, ""), Tok("nvB", v.enum_var, "")>>
    IN
    IF v.has_system_nu
    THEN [code |-> code, step |-> StepSkipped(name, <<Msg("Already present, skipped")>>)]
    ELSE IF v.cmd_exists_fn = ""
    THEN [code |-> code,
          step |-> StepFail(name, <<Msg("Cannot find commandExists function (Ie/Qe)")>>)]
    ELSE IF Occ(code, tail_pattern) = {}
    THEN [code |-> code,
          step |-> StepFail(name, <<Msg("Cannot find ")>> \o tail_pattern
                                    \o <<Msg(" at end of detectShellType")>>)]
    ELSE
      LET tail_idx == Max(Occ(code, tail_pattern))
          ni == tail_idx + 1
          naive_start == Off(code, ni)
          insertion == <<Tok("sysNu", v.cmd_exists_fn, v.enum_var)>>
          new_code == Splice(code, ni, insertion)
          ctx_start == IF naive_start > NuCtxBefore THEN naive_start - NuCtxBefore ELSE 0
          full == naive_start + ByteLen(insertion) + SysNuCtxAfter
          ctx_end == IF full < ByteLen(new_code) THEN full ELSE ByteLen(new_code)
          detail == <<Msg("Insertion: ")>> \o insertion \o <<Msg("Context:   ...")>>
                      \o Slice(new_code, ctx_start, ctx_end) \o <<Msg("...")>>
      IN  IF ~CharBoundary(new_code, ctx_start) \/ ~CharBoundary(new_code, ctx_end)
          THEN [code |-> code, step |-> Panicked]
          ELSE [code |-> new_code,
                step |-> WithDetail(
                           StepOk(name,
                             <<Msg("Inserted PATH-based nu check before final fallback")>>),
                           detail)]

(***************************************************************************)
(* Patch: userTerminalHint in shell resolution (IDE)                       *)
(***************************************************************************)

\* Matches of (\w+)\?\.shell\?\?(?!\w+\?\.userTerminalHint)
ShellFallbackMatches(code) ==
    {i \in 1..Len(code) :
        /\ code[i].k = "shellQ"
        /\ ~(i < Len(code) /\ code[i + 1].k \in {"uthQ", "uthOr"})}

patch_user_terminal_hint(code, v) ==
    LET name == "userTerminalHint"
    IN
    IF v.has_user_terminal_hint
    THEN [code |-> code, step |-> StepSkipped(name, <<Msg("Already present, skipped")>>)]
    ELSE IF ShellFallbackMatches(code) = {}
    THEN [code |-> code, step |-> StepFail(name, <<Msg("Cannot find ?.shell?? pattern")>>)]
    ELSE
      LET shell_var == code[Min(ShellFallbackMatches(code))].a
          find == <<Tok("shellQ", shell_var, "")>>
          replace == <<Tok("shellQ", shell_var, ""), Tok("uthQ", shell_var, "")>>
          new_code == Replacen1(code, find, replace)
          detail == <<Msg("Find:    ")>> \o find \o <<Msg("Replace: ")>> \o replace
      IN  [code |-> new_code,
           step |-> WithDetail(StepOk(name, find \o <<Msg(" -> ")>> \o replace), detail)]

(***************************************************************************)
(* Patch: executor factory Naive case (CLI)                                *)
(***************************************************************************)

\* switch\(\w+\((\w+)\?\.userTerminalHint, else "t"
OptsVarOf(code) ==
    LET ms == {i \in 1..Len(code) : code[i].k = "swUth"}
    IN  IF ms = {} THEN "t" ELSE code[Min(ms)].a

\* The formatted `case <enum>.Naive:{...}` text.
NaiveCaseText(v, opts_var) ==
    <<Tok("caseNaive", v.enum_var, ""), Tok("np", "", "")>> \o v.find_exec_call
      \o <<Tok("nuArgs", "", ""), Tok("cmdRet", "", ""),
           Tok("newX", v.lazy_exec, ""), Tok("promise", "", ""),
           Tok("newX", v.naive_exec, ""), Tok("cwdSh", "", ""),
           Tok("uthOr", opts_var, ""), Tok("npOrEnv", "", ""),
           Tok("optsEnd", opts_var, "")>>

patch_naive_case(code, v) ==
    LET name == "Naive case"
        cannot == <<Msg("Cannot construct Naive case (lazy_exec="), DebugOpt(v.lazy_exec),
                    Msg(", naive_exec="), DebugOpt(v.naive_exec), Msg(")")>>
        zsh_case == <<Tok("caseZsh", v.enum_var, "")>>
    IN
    IF v.has_naive_case
    THEN [code |-> code, step |-> StepSkipped(name, <<Msg("Already exists, skipped")>>)]
    ELSE IF v.lazy_exec = ""
    THEN [code |-> code, step |-> StepFail(name, cannot)]
    ELSE IF v.naive_exec = ""
    THEN [code |-> code, step |-> StepFail(name, cannot)]
    ELSE IF v.find_exec_call = <<>>
    THEN [code |-> code,
          step |-> StepFail(name, <<Msg("Cannot find findActualExecutable call pattern")>>)]
    ELSE IF Occ(code, zsh_case) = {}
    THEN [code |-> code, step |-> StepFail(name, <<Msg("Cannot find executor factory")>>)]
    ELSE
      LET naive_case == NaiveCaseText(v, OptsVarOf(code))
          search_from == Min(Occ(code, zsh_case))
          defaults == {j \in search_from..Len(code) : code[j].k = "dflt"}
          near == {j \in defaults :
                     Off(code, j) - Off(code, search_from) < DefaultLookahead}
          lights == {j \in search_from..Len(code) :
                       code[j] = Tok("caseZshLight", v.enum_var, "")}
          \* default_idx is the FIRST default:, kept only if it is near
          useDefault == defaults # {} /\ Min(defaults) \in near
      IN
      IF ~useDefault /\ lights = {}
      THEN [code |-> code,
            step |-> StepFail(name, <<Msg("Cannot find insertion point for Naive case")>>)]
      ELSE
        LET target_idx == IF useDefault THEN Min(defaults) ELSE Min(lights)
            insert_label == IF useDefault THEN "before default:" ELSE "before ZshLight"
        IN  [code |-> Splice(code, target_idx, naive_case),
             step |-> WithDetail(
                        StepOk(name, <<Msg("Inserted "), Msg(insert_label)>>),
                        <<Msg("Insertion: ")>> \o naive_case)]

(***************************************************************************)
(* Patch: getShellExecutablePath default fallback (IDE legacy path)        *)
(***************************************************************************)
patch_shell_path_fallback(code, v) ==
    LET name == "Shell path fallback"
        find == <<Tok("dflt", "", ""), Tok("retSh", "", "")>>
    IN
    IF v.find_exec_call = <<>>
    THEN [code |-> code,
          step |-> StepFail(name, <<Msg("Cannot find findActualExecutable call pattern")>>)]
    ELSE IF Contains(code, v.find_exec_call \o <<Tok("nuArgs", "", "")>>)
    THEN [code |-> code, step |-> StepSkipped(name, <<Msg("Already patched, skipped")>>)]
    ELSE IF ~Contains(code, find)
    THEN [code |-> code,
          step |-> StepFail(name, <<Msg("Cannot find ")>> \o find \o <<Msg(" pattern")>>)]
    ELSE
      LET fi == Min(Occ(code, find))
          idx == Off(code, fi)
          region_start == IF idx > FallbackContext THEN idx - FallbackContext ELSE 0
          hasFae == \E t \in 1..(fi - 1) :
                       code[t].k = "fex" /\ Off(code, t) + FaeOffsetInFex >= region_start
          hasPs == \E t \in 1..(fi - 1) :
                       code[t].k = "psC" /\ Off(code, t) + PsOffsetInPsC >= region_start
      IN
      IF ~CharBoundary(code, region_start)
      THEN [code |-> code, step |-> Panicked]
      ELSE IF ~hasFae /\ ~hasPs
      THEN [code |-> code,
            step |-> StepFail(name,
                       <<Msg("Found pattern but not in getShellExecutablePath context")>>)]
      ELSE
        LET replace == <<Tok("caseNaive", v.enum_var, ""), Tok("np", "", "")>>
                         \o v.find_exec_call
                         \o <<Tok("nuArgs", "", ""), Tok("cmdIf", "", ""),
                              Tok("dflt", "", ""), Tok("retWin", "", "")>>
        IN  [code |-> Replacen1(code, find, replace),
             step |-> WithDetail(
                        StepOk(name,
                          <<Msg("Added Naive case with PATH-based nu discovery")>>),
                        <<Msg("Find:    ")>> \o find \o <<Msg("Replace: ")>> \o replace)]

(***************************************************************************)
(* Patch plans                                                             *)
(***************************************************************************)
CLI_PLAN ==
    [label |-> "CLI",
     patches |-> <<"Nu detection", "System nu detection", "Naive case">>,
     restore_before_patch |-> FALSE]

IDE_PLAN ==
    [label |-> "IDE",
     patches |-> <<"Nu detection", "System nu detection", "userTerminalHint",
                   "Shell path fallback">>,
     restore_before_patch |-> TRUE]

\* plan.is_fully_patched (a closure over QuickDetect)
is_fully_patched(plan, d) ==
    IF plan.label = "CLI"
    THEN d.has_nu /\ d.has_system_nu /\ d.has_naive_case
    ELSE d.has_nu /\ d.has_system_nu /\ d.has_uth

\* The function a plan entry's name is paired with.
patch_fn(name, code, v) ==
    CASE name = "Nu detection" -> patch_nu_detection(code, v)
      [] name = "System nu detection" -> patch_system_nu_detection(code, v)
      [] name = "Naive case" -> patch_naive_case(code, v)
      [] name = "userTerminalHint" -> patch_user_terminal_hint(code, v)
      [] name = "Shell path fallback" -> patch_shell_path_fallback(code, v)

(***************************************************************************)
(* Backup / restore (integrity.rs).  io is the outcome of the fs::copy the *)
(* call performs: "ok"; "err", it failed before touching its destination;  *)
(* "empty" or "half", it failed after creating / truncating the            *)
(* destination, which is left empty or with the first part of the data     *)
(* (fs::copy and fs::write open the destination with create + truncate and *)
(* then transfer the bytes; neither is atomic).                            *)
(***************************************************************************)
NoFile == [exists |-> FALSE, data |-> <<>>]

File(data) == [exists |-> TRUE, data |-> data]

\* What a write of data that failed with outcome io in {"empty", "half"}
\* leaves in its destination.
Torn(io, data) ==
    IF io = "empty" THEN <<>> ELSE SubSeq(data, 1, Len(data) \div 2)

\* Faulty variant of backup, used to test the properties below: the copy is made even when a .bak file exists.
backup_Overwrites(t, b, io) ==
    IF io = "ok" THEN [err |-> FALSE, bak |-> File(t), copied |-> TRUE]
    ELSE [err |-> TRUE, bak |-> IF io = "err" THEN b ELSE File(Torn(io, t)),
          copied |-> FALSE]

\* backup(filepath): Err, or Ok with the .bak file as it is afterwards.
backup(t, b, io) ==
    IF ~b.exists
    THEN IF io = "ok" THEN [err |-> FALSE, bak |-> File(t), copied |-> TRUE]
         ELSE [err |-> TRUE, bak |-> IF io = "err" THEN b ELSE File(Torn(io, t)),
               copied |-> FALSE]
    ELSE [err |-> FALSE, bak |-> b, copied |-> FALSE]

\* Faulty variant of restore_from_backup, used to test the properties below: Ok(true) is returned without copying.
restore_from_backup_NoCopy(t, b, io) ==
    [err |-> FALSE, restored |-> b.exists, target |-> t]

\* restore_from_backup(filepath): Err, Ok(true) or Ok(false), and the file.
restore_from_backup(t, b, io) ==
    IF b.exists
    THEN IF io = "ok" THEN [err |-> FALSE, restored |-> TRUE, target |-> b.data]
         ELSE [err |-> TRUE, restored |-> FALSE,
               target |-> IF io = "err" THEN t ELSE Torn(io, b.data)]
    ELSE [err |-> FALSE, restored |-> FALSE, target |-> t]

(***************************************************************************)
(* Checksums of product.json (integrity.rs).  product.json is a record:     *)
(* readable (it can be read and parsed) and checksums, a function from the *)
(* listed relative paths to the expected digests ("" for a value that is   *)
(* not a string).  The files under <app>/out are a function from paths to  *)
(* records: kind "missing", "file" (with its digest) or "unreadable" (a    *)
(* file fs::read fails on).                                                *)
(***************************************************************************)
NumFiles == 2

Paths == 1..NumFiles

Digests == {"h1", "h2"}

Missing == [kind |-> "missing", hash |-> ""]

Unreadable == [kind |-> "unreadable", hash |-> ""]

Hashed(h) == [kind |-> "file", hash |-> h]

\* Path::is_file()
IsFile(f) == f.kind # "missing"

\* sha256_base64_stripped(path).is_ok()
HashOk(f) == f.kind = "file"

\* Faulty variant of checksums_all_match, used to test the properties below: a listed file that is missing counts as a mismatch.
checksums_all_match_MissingFails(prod, files) ==
    IF ~prod.readable THEN "None"
    ELSE IF DOMAIN prod.checksums = {} THEN "None"
    ELSE IF \E p \in DOMAIN prod.checksums :
               ~IsFile(files[p])
                 \/ (HashOk(files[p]) /\ files[p].hash # prod.checksums[p])
    THEN "Some(false)"
    ELSE "Some(true)"

\* checksums_all_match(product_json, cursor_app) -> Option<bool>
checksums_all_match(prod, files) ==
    IF ~prod.readable THEN "None"
    ELSE IF DOMAIN prod.checksums = {} THEN "None"
    ELSE IF \E p \in DOMAIN prod.checksums :
               IsFile(files[p]) /\ HashOk(files[p]) /\ files[p].hash # prod.checksums[p]
    THEN "Some(false)"
    ELSE "Some(true)"

\* The VerifyEntry of one checksum entry whose file can be hashed or is missing.
VerifyEntryOf(p, expected, f) ==
    IF ~IsFile(f)
    THEN [rel_path |-> p, expected |-> expected, actual |-> "", matches |-> FALSE,
          missing |-> TRUE]
    ELSE [rel_path |-> p, expected |-> expected, actual |-> f.hash,
          matches |-> f.hash = expected, missing |-> FALSE]

\* The entries verify_checksums pushes for the paths of S, in map order.
RECURSIVE VerifyEntries(_, _, _)
VerifyEntries(S, sums, files) ==
    IF S = {} THEN <<>>
    ELSE <<VerifyEntryOf(Min(S), sums[Min(S)], files[Min(S)])>>
           \o VerifyEntries(S \ {Min(S)}, sums, files)

NotVerified == [called |-> FALSE, err |-> FALSE, all_match |-> FALSE, entries |-> <<>>]

\* verify_checksums(product_json, cursor_app) -> eyre::Result<VerifyResult>
verify_checksums(prod, files) ==
    IF ~prod.readable
    THEN [called |-> TRUE, err |-> TRUE, all_match |-> FALSE, entries |-> <<>>]
    ELSE IF \E p \in DOMAIN prod.checksums : IsFile(files[p]) /\ ~HashOk(files[p])
    THEN [called |-> TRUE, err |-> TRUE, all_match |-> FALSE, entries |-> <<>>]
    ELSE LET es == VerifyEntries(DOMAIN prod.checksums, prod.checksums, files)
         IN  [called |-> TRUE, err |-> FALSE,
              all_match |-> \A i \in 1..Len(es) : es[i].matches /\ ~es[i].missing,
              entries |-> es]

\* A product.json without checksums section, and no files: the state of
\* these variables where they play no part.
NoProduct == [readable |-> TRUE, checksums |-> <<>>]

NoOut == [p \in Paths |-> Missing]

(***************************************************************************)
(* Input files.  A file of the CLI agent and a file of the IDE agent, as   *)
(* the minifier emits them for given identifier names, and variations.     *)
(***************************************************************************)
CliFile(h, e, q, l, n, o) ==
    << Tok("fnHead", q, ""), Tok("fex", "m", ""), Tok("fnTail", "", ""),
       Tok("zshI", h, ""), Tok("qZsh", e, ""), Tok("pwsh", h, ""), Tok("psC", e, ""),
       Tok("psC", e, ""), Tok("nvB", e, ""),
       Tok("newX", n, ""), Tok("cwdSh", "", ""),
       Tok("swUth", o, ""), Tok("caseZsh", e, ""), Tok("newX", l, ""),
       Tok("caseZshLight", e, ""), Tok("newX", l, ""), Tok("dflt", "", "") >>

IdeFile(h, e, q, o) ==
    << Tok("fnHead", q, ""), Tok("fex", "m", ""), Tok("fnTail", "", ""),
       Tok("zshI", h, ""), Tok("qZsh", e, ""), Tok("pwsh", h, ""), Tok("psC", e, ""),
       Tok("psC", e, ""), Tok("nvB", e, ""),
       Tok("shellQ", o, ""), Tok("psC", e, ""),
       Tok("dflt", "", ""), Tok("retSh", "", "") >>

CliBase == CliFile("h", "E", "Q", "L", "N", "o")

IdeBase == IdeFile("h", "E", "Q", "o")

\* The same files from another build: every identifier renamed.
CliOther == CliFile("g", "F", "R", "K", "M", "p")

IdeOther == IdeFile("g", "F", "R", "p")

\* IdeBase with the four patches of the IDE plan applied, then edited by
\* hand: a few bytes added to its last line.
IdeHandEdited ==
    << Tok("fnHead", "Q", ""), Tok("fex", "m", ""), Tok("fnTail", "", ""),
       Tok("zshI", "h", ""), Tok("qZsh", "E", ""), Tok("nuT", "h", "E"),
       Tok("pwsh", "h", ""), Tok("psC", "E", ""),
       Tok("psC", "E", ""), Tok("sysNu", "Q", "E"), Tok("nvB", "E", ""),
       Tok("shellQ", "o", ""), Tok("uthQ", "o", ""), Tok("psC", "E", ""),
       Tok("caseNaive", "E", ""), Tok("np", "", ""), Tok("fex", "m", ""),
       Tok("nuArgs", "", ""), Tok("cmdIf", "", ""),
       Tok("dflt", "", ""), Tok("retWin", "", ""), Pad(3) >>

Drop(code, i) == SubSeq(code, 1, i - 1) \o SubSeq(code, i + 1, Len(code))

\* One character outside ASCII (in a string literal or a comment).
Uni == Tok("uni", "", "")

\* Texts with such a character at a place the patch functions slice at:
\* 2000 bytes after the zsh check; 40 bytes before the pwsh check; 40 bytes
\* after the final Naive} of detectShellType; 500 bytes before the default:
\* of getShellExecutablePath.
UniTexts(base) ==
    {Splice(base, 6, <<Pad(NuRegion - 24), Uni>>),
     Splice(base, 4, <<Uni, Pad(NuCtxBefore - 25)>>),
     Splice(base, 10, <<Pad(SysNuCtxAfter - 9), Uni>>)}

IdeUniFallback == Splice(IdeBase, 12, <<Uni, Pad(FallbackContext - 2)>>)

\* Variations of CliBase around the insertion points of patch_naive_case:
\* the default: exactly 9999 and exactly 10000 bytes after the Zsh case; a
\* far default: and no ZshLight case; neither; a default: only before the
\* Zsh case.
NaiveCaseTexts ==
    {Splice(CliBase, 17, <<Pad(DefaultLookahead - 40)>>),
     Splice(CliBase, 17, <<Pad(DefaultLookahead - 39)>>),
     Drop(Splice(CliBase, 17, <<Pad(DefaultLookahead)>>), 15),
     Drop(Drop(CliBase, 17), 15),
     Splice(Drop(CliBase, 17), 12, <<Tok("dflt", "", "")>>)}

\* Variations of CliBase around the shapes discovery reads the second
\* executor class from: the {...spread, shell: shape after / before / instead
\* of the process.cwd() shape; an existing Naive case that constructs two
\* classes, one class only, or the second class on the next line.
DiscoverTexts ==
    {CliBase \o <<Tok("newX", "M", ""), Tok("spreadSh", "", "")>>,
     <<Tok("newX", "M", ""), Tok("spreadSh", "", "")>> \o CliBase,
     Drop(Drop(CliBase, 11), 10) \o <<Tok("newX", "M", ""), Tok("spreadSh", "", "")>>,
     Drop(Drop(CliBase, 11), 10),
     CliBase \o <<Tok("caseNaive", "E", ""), Tok("newX", "A", ""), Tok("newX", "B", "")>>,
     CliBase \o <<Tok("newX", "M", ""), Tok("spreadSh", "", ""),
                  Tok("caseNaive", "E", ""), Tok("newX", "A", "")>>,
     CliBase \o <<Tok("caseNaive", "E", ""), Tok("newX", "A", ""), Tok("nl", "", ""),
                  Tok("newX", "B", "")>>,
     Drop(Drop(CliBase, 11), 10)
       \o <<Tok("caseNaive", "E", ""), Tok("newX", "A", ""), Tok("nl", "", ""),
            Tok("newX", "M", ""), Tok("spreadSh", "", "")>>}

\* IdeBase followed, further than 500 bytes on, by another function with the
\* same default: branch.
IdeTwoFallbacks ==
    IdeBase \o <<Pad(FallbackContext), Tok("dflt", "", ""), Tok("retSh", "", "")>>

\* IdeBase behind a comment that starts with such a character: the
\* character lies 500 bytes before the default: of getShellExecutablePath,
\* and the whole of the file's code within those 500 bytes.
IdeUniHeader == Splice(IdeBase, 1, <<Uni, Pad(FallbackContext - 165)>>)

CliTexts ==
    {CliBase, CliOther}
      \cup {Drop(CliBase, i) : i \in 1..Len(CliBase)}
      \cup {Splice(CliBase, 6, <<Pad(NuRegion)>>),
            Splice(CliBase, 17, <<Pad(DefaultLookahead)>>),
            Splice(CliBase, 6, <<Tok("nuT", "h", "E")>>),
            Splice(CliBase, 9, <<Tok("sysNu", "Q", "E")>>),
            Splice(CliBase, 4, <<Uni, Pad(NuCtxBefore - 25)>>)}

IdeTexts ==
    {IdeBase, IdeOther, IdeHandEdited}
      \cup {Drop(IdeBase, i) : i \in 1..Len(IdeBase)}
      \cup {Splice(IdeBase, 6, <<Pad(NuRegion)>>),
            Splice(IdeBase, 12, <<Pad(FallbackContext)>>),
            Splice(IdeBase, 6, <<Tok("nuT", "h", "E")>>),
            Splice(IdeBase, 11, <<Tok("uthQ", "o", "")>>),
            Splice(Splice(Splice(IdeBase, 11, <<Tok("uthQ", "o", "")>>),
                          9, <<Tok("sysNu", "Q", "E")>>),
                   6, <<Tok("nuT", "h", "E")>>),
            Splice(IdeBase, 10, <<Pad(SysNuCtxAfter - 9), Uni>>)}

TextsOf(p) == IF p.label = "CLI" THEN CliTexts ELSE IdeTexts

\* Backups found next to the file before the first run: none, a copy of the
\* pristine file, a copy lacking the zsh anchor, a copy from another build.
BackupsOf(p) ==
    IF p.label = "CLI"
    THEN {NoFile, File(CliBase), File(Drop(CliBase, 4)), File(CliOther)}
    ELSE {NoFile, File(IdeBase), File(Drop(IdeBase, 4)), File(IdeOther)}

(***************************************************************************)
(* The patch driver run_patch, one action per phase, and revert_all.       *)
(***************************************************************************)
MaxOps == 2

MaxFaults == 1

VARIABLES
    plan,      \* the PatchPlan of the target file (CLI_PLAN or IDE_PLAN)
    target,    \* content of the target file on disk
    bak,       \* the <target>.bak file on disk
    pc,        \* where run_patch stands: idle, backup, restore, discover,
               \* patch, write, done; integrity: back in cmd_patch, about
               \* to call update_integrity; panic: the process has aborted
    dry_run,   \* the dry_run argument of the run in progress
    code,      \* the accumulated text of the run in progress
    v,         \* the DiscoveredVars of the run in progress
    idx,       \* 1-based index of the next entry of plan.patches
    steps,     \* the steps of the PatchResult being built / returned
    success,   \* PatchResult.success once pc = "done"
    pre,       \* history: the disk when the run in progress began
    log,       \* history: the disk mutations of the run in progress
    prev,      \* history: the last completed operation
    ops,       \* operations begun so far
    faults,    \* failed I/O calls so far
    integrity, \* the update_integrity calls made: how many, and the
               \* main.js content the last one hashed
    det,       \* the Option<QuickDetect> computed from the live file
    product,   \* product.json: readable, and its checksums section
    out,       \* the files under <app>/out that product.json may list
    sums_match,\* IntegrityStatus.product_checksums_match of check_status
    verified   \* the Result<VerifyResult> of verify_checksums

vars == <<plan, target, bak, pc, dry_run, code, v, idx, steps, success,
          pre, log, prev, ops, faults, integrity, det,
          product, out, sums_match, verified>>

sumVars == <<product, out, sums_match, verified>>

NoVars ==
    [hint_var |-> "", enum_var |-> "", lazy_exec |-> "", naive_exec |-> "",
     cmd_exists_fn |-> "", find_exec_call |-> <<>>, has_naive_case |-> FALSE,
     has_nu_detection |-> FALSE, has_system_nu |-> FALSE,
     has_user_terminal_hint |-> FALSE]

\* quick_detect found no anchor, or has not run.
NoDetect == [some |-> FALSE]

NoOp ==
    [kind |-> "none", dry_run |-> FALSE, success |-> FALSE, steps |-> <<>>,
     pre |-> [target |-> <<>>, bak |-> NoFile],
     post |-> [target |-> <<>>, bak |-> NoFile], restored |-> FALSE]

\* Outcomes of one fs::read_to_string call: it may fail while the fault
\* budget lasts.
Io == IF faults < MaxFaults THEN {"ok", "err"} ELSE {"ok"}

\* Outcomes of one fs::copy / fs::write call.
IoW == IF faults < MaxFaults THEN {"ok", "err", "empty", "half"} ELSE {"ok"}

Fault(io) == faults' = IF io = "ok" THEN faults ELSE faults + 1

Init ==
    /\ plan \in {CLI_PLAN, IDE_PLAN}
    /\ target \in TextsOf(plan)
    /\ bak \in BackupsOf(plan)
    /\ pc = "idle"
    /\ dry_run = FALSE
    /\ code = <<>>
    /\ v = NoVars
    /\ idx = 0
    /\ steps = <<>>
    /\ success = FALSE
    /\ pre = [target |-> target, bak |-> bak]
    /\ log = <<>>
    /\ prev = NoOp
    /\ ops = 0
    /\ faults = 0
    /\ integrity = [calls |-> 0, main |-> <<>>]
    /\ det = NoDetect
    /\ product = NoProduct
    /\ out = NoOut
    /\ sums_match = "unset"
    /\ verified = NotVerified

ReadFailed(p) == <<Msg("Failed to read "), Msg(p.label), Msg(" agent")>>

DiscoveryDetail(d) ==
    <<Msg("hint_var="), Msg(d.hint_var), Msg("  enum_var="), Msg(d.enum_var),
      Msg("  lazy_exec="), DebugOpt(d.lazy_exec),
      Msg("  naive_exec="), DebugOpt(d.naive_exec),
      Msg("  cmd_exists="), DebugOpt(d.cmd_exists_fn), Msg("  find_exec=")>>
      \o d.find_exec_call
      \o <<Msg("  has_uth="), Msg(IF d.has_user_terminal_hint THEN "true" ELSE "false"),
           Msg("  has_sys_nu="), Msg(IF d.has_system_nu THEN "true" ELSE "false")>>

\* Faulty variant of fail, used to test the properties below: the failure result is built with success: true.
fail_ReportsSuccess(s) == [success |-> TRUE, steps |-> s]

\* let fail = |steps| PatchResult { success: false, steps };
fail(s) == [success |-> FALSE, steps |-> s]

\* Faulty variant of AlreadyPatched, used to test the properties below: the early return is never taken.
AlreadyPatched_Never(p, live_code) == FALSE

\* if let Some(det) = quick_detect(&live_code) && (plan.is_fully_patched)(&det)
AlreadyPatched(p, live_code) ==
    LET found == quick_detect(live_code)
    IN  found.some /\ is_fully_patched(p, found)

\* The PatchResult of the already-patched return.
AllSkipped(p) ==
    [success |-> TRUE,
     steps |-> <<StepOk("Pattern discovery",
                        <<Msg("Discovered minified variable names")>>)>>
                 \o [i \in 1..Len(p.patches) |->
                       StepSkipped(p.patches[i], <<Msg("Already present, skipped")>>)]]

\* Faulty variant of AfterDetect, used to test the properties below: the dry_run test is missing.
AfterDetect_IgnoresDryRun(d) == "backup"

\* Faulty variant of AfterDetect, used to test the properties below: the backup / restore block is never entered.
AfterDetect_NeverBackup(d) == "discover"

\* if !dry_run { backup ... } : the phase that follows the detection
AfterDetect(d) == IF ~d THEN "backup" ELSE "discover"

\* Faulty variant of AfterBackup, used to test the properties below: no plan restores from the backup.
AfterBackup_NeverRestore(p) == "discover"

\* Faulty variant of AfterBackup, used to test the properties below: every plan restores from the backup.
AfterBackup_AlwaysRestore(p) == "restore"

\* if plan.restore_before_patch && ... restore_from_backup(path)
AfterBackup(p) == IF p.restore_before_patch THEN "restore" ELSE "discover"

\* Faulty variant of AfterStep, used to test the properties below: the last step's failure does not end the run.
AfterStep_LastNotChecked(ok, i, n) ==
    IF i = n THEN "write" ELSE IF ~ok THEN "done" ELSE "patch"

\* if !ok { return ... } inside the loop over plan.patches; i is the index
\* of the step just run, n the number of steps
AfterStep(ok, i, n) ==
    IF ~ok THEN "done" ELSE IF i = n THEN "write" ELSE "patch"

\* run_patch, lines 665-686: read the live file, return early if the plan's
\* patches are all present.
RunPatchBegin(d) ==
    /\ pc = "idle"
    /\ ops < MaxOps
    /\ ops' = ops + 1
    /\ dry_run' = d
    /\ pre' = [target |-> target, bak |-> bak]
    /\ log' = <<>>
    /\ \E io \in Io :
         /\ Fault(io)
         /\ det' = IF io # "ok" THEN NoDetect ELSE quick_detect(target)
         /\ IF io # "ok"
            THEN /\ steps' = fail(<<StepFail("Read", ReadFailed(plan))>>).steps
                 /\ success' = fail(<<StepFail("Read", ReadFailed(plan))>>).success
                 /\ pc' = "done"
            ELSE IF AlreadyPatched(plan, target)
            THEN /\ steps' = AllSkipped(plan).steps
                 /\ success' = AllSkipped(plan).success
                 /\ pc' = "done"
            ELSE /\ steps' = <<>>
                 /\ success' = FALSE
                 /\ pc' = AfterDetect(d)
    /\ UNCHANGED sumVars
    /\ UNCHANGED <<integrity, plan, target, bak, code, v, idx, prev>>

patch_cli_agent(d) == plan = CLI_PLAN /\ RunPatchBegin(d)

patch_ide_agent(d) == plan = IDE_PLAN /\ RunPatchBegin(d)

\* run_patch, lines 688-691
RunPatchBackup ==
    /\ pc = "backup"
    /\ \E io \in (IF bak.exists THEN {"ok"} ELSE IoW) :
         LET r == backup(target, bak, io)
             f == fail(<<StepFail("Backup", <<Msg("Failed to create backup")>>)>>)
         IN  /\ Fault(io)
             /\ bak' = r.bak
             /\ log' = IF r.copied THEN Append(log, "backup")
                        ELSE IF r.bak # bak THEN Append(log, "torn") ELSE log
             /\ IF r.err
                THEN /\ steps' = f.steps
                     /\ success' = f.success
                     /\ pc' = "done"
                ELSE /\ pc' = AfterBackup(plan)
                     /\ UNCHANGED <<steps, success>>
    /\ UNCHANGED sumVars
    /\ UNCHANGED <<det, integrity, plan, target, dry_run, code, v, idx, pre, prev, ops>>

\* run_patch, lines 692-696
RunPatchRestore ==
    /\ pc = "restore"
    /\ \E io \in (IF bak.exists THEN IoW ELSE {"ok"}) :
         LET r == restore_from_backup(target, bak, io)
             f == fail(<<StepFail("Restore", <<Msg("Failed to restore from backup")>>)>>)
         IN  /\ Fault(io)
             /\ target' = r.target
             /\ log' = IF r.restored THEN Append(log, "restore")
                        ELSE IF r.target # target THEN Append(log, "torn") ELSE log
             /\ IF r.err
                THEN /\ steps' = f.steps
                     /\ success' = f.success
                     /\ pc' = "done"
                ELSE /\ pc' = "discover"
                     /\ UNCHANGED <<steps, success>>
    /\ UNCHANGED sumVars
    /\ UNCHANGED <<det, integrity, plan, bak, dry_run, code, v, idx, pre, prev, ops>>

\* run_patch, lines 699-720: (re-)read the file and run full discovery
RunPatchDiscover ==
    /\ pc = "discover"
    /\ \E io \in Io :
         /\ Fault(io)
         /\ IF io # "ok"
            THEN /\ steps' = fail(<<StepFail("Read", ReadFailed(plan))>>).steps
                 /\ success' = fail(<<StepFail("Read", ReadFailed(plan))>>).success
                 /\ pc' = "done"
                 /\ UNCHANGED <<code, v, idx>>
            ELSE LET r == discover_vars(target)
                 IN  IF ~r.ok
                     THEN /\ steps' = fail(<<StepFail("Pattern discovery", r.err)>>).steps
                          /\ success' =
                               fail(<<StepFail("Pattern discovery", r.err)>>).success
                          /\ pc' = "done"
                          /\ UNCHANGED <<code, v, idx>>
                     ELSE /\ steps' =
                               Append(steps,
                                 WithDetail(
                                   StepOk("Pattern discovery",
                                          <<Msg("Discovered minified variable names")>>),
                                   DiscoveryDetail(r.v)))
                          /\ code' = target
                          /\ v' = r.v
                          /\ idx' = 1
                          /\ pc' = IF Len(plan.patches) = 0 THEN "write" ELSE "patch"
                          /\ UNCHANGED success
    /\ UNCHANGED sumVars
    /\ UNCHANGED <<det, integrity, plan, target, bak, dry_run, pre, log, prev, ops>>

\* run_patch, lines 722-735: one iteration of the loop over plan.patches
\* (a panic in the patch function ends the process: pc = "panic")
RunPatchStep ==
    /\ pc = "patch"
    /\ LET r == patch_fn(plan.patches[idx], code, v)
       IN  IF r.step = Panicked
           THEN /\ pc' = "panic"
                /\ UNCHANGED <<steps, success, code, idx>>
           ELSE /\ steps' = Append(steps, r.step)
                /\ pc' = AfterStep(r.step.ok, idx, Len(plan.patches))
                /\ IF ~r.step.ok
                   THEN /\ success' = FALSE
                        /\ UNCHANGED <<code, idx>>
                   ELSE /\ code' = r.code
                        /\ idx' = idx + 1
                        /\ UNCHANGED success
    /\ UNCHANGED sumVars
    /\ UNCHANGED <<det, integrity, plan, target, bak, dry_run, v, pre, log, prev, ops, faults>>

\* run_patch, lines 737-747
RunPatchWrite ==
    /\ pc = "write"
    /\ pc' = "done"
    /\ IF ~dry_run
       THEN \E io \in IoW :
              /\ Fault(io)
              /\ IF io # "ok"
                 THEN /\ steps' = Append(steps,
                                    StepFail("Write", <<Msg("Failed to write "),
                                             Msg(plan.label), Msg(" agent")>>))
                      /\ success' = FALSE
                      /\ target' = IF io = "err" THEN target ELSE Torn(io, code)
                      /\ log' = IF target' # target THEN Append(log, "torn") ELSE log
                 ELSE /\ target' = code
                      /\ log' = Append(log, "write")
                      /\ steps' = Append(steps, StepOk("Write", <<Msg("Written: <file>")>>))
                      /\ success' = TRUE
       ELSE /\ steps' = Append(steps,
                          StepSkipped("Write", <<Msg("Would write: <file>")>>))
            /\ success' = TRUE
            /\ UNCHANGED <<target, log, faults>>
    /\ UNCHANGED sumVars
    /\ UNCHANGED <<det, integrity, plan, bak, dry_run, code, v, idx, pre, prev, ops>>

\* Faulty variant of AfterReturn, used to test the properties below: the dry_run test is missing.
AfterReturn_IgnoresDryRun(p, ok, d) ==
    IF p.label = "IDE" /\ ok THEN "integrity" ELSE "idle"

\* cmd_patch, after the agent's patch function returned: only the IDE
\* branch goes on to update_integrity, if ide_result.success && !dry_run
AfterReturn(p, ok, d) ==
    IF p.label = "IDE" /\ ok /\ ~d THEN "integrity" ELSE "idle"

\* run_patch returns its PatchResult to the caller.
RunPatchReturn ==
    /\ pc = "done"
    /\ pc' = AfterReturn(plan, success, dry_run)
    /\ prev' = [kind |-> "run", dry_run |-> dry_run, success |-> success,
                steps |-> steps, pre |-> pre,
                post |-> [target |-> target, bak |-> bak], restored |-> FALSE]
    /\ code' = <<>>
    /\ v' = NoVars
    /\ idx' = 0
    /\ steps' = <<>>
    /\ success' = FALSE
    /\ det' = NoDetect
    /\ UNCHANGED sumVars
    /\ UNCHANGED <<integrity, plan, target, bak, dry_run, pre, log, ops, faults>>

\* revert_all, for this target: restore_from_backup(target).unwrap_or(false)
revert_all ==
    /\ pc = "idle"
    /\ ops < MaxOps
    /\ ops' = ops + 1
    /\ \E io \in (IF bak.exists THEN IoW ELSE {"ok"}) :
         LET r == restore_from_backup(target, bak, io)
         IN  /\ Fault(io)
             /\ target' = r.target
             /\ prev' = [kind |-> "revert", dry_run |-> FALSE, success |-> FALSE,
                         steps |-> <<>>, pre |-> [target |-> target, bak |-> bak],
                         post |-> [target |-> r.target, bak |-> bak],
                         restored |-> r.restored]
    /\ UNCHANGED sumVars
    /\ UNCHANGED <<det, integrity, plan, bak, pc, dry_run, code, v, idx, steps, success, pre, log>>

\* cmd_patch calls update_integrity(ide_main, ...), which hashes main.js
\* as it is on disk (integrity.rs line 116); what it does to the other
\* files of the installation is outside this model.
update_integrity ==
    /\ pc = "integrity"
    /\ pc' = "idle"
    /\ integrity' = [calls |-> integrity.calls + 1, main |-> target]
    /\ UNCHANGED sumVars
    /\ UNCHANGED <<plan, target, bak, dry_run, code, v, idx, steps, success,
                   pre, log, prev, ops, faults, det>>

Next ==
    \/ \E d \in BOOLEAN : patch_cli_agent(d)
    \/ \E d \in BOOLEAN : patch_ide_agent(d)
    \/ RunPatchBackup
    \/ RunPatchRestore
    \/ RunPatchDiscover
    \/ RunPatchStep
    \/ RunPatchWrite
    \/ RunPatchReturn
    \/ revert_all
    \/ update_integrity

Spec == Init /\ [][Next]_vars

(***************************************************************************)
(* Properties                                                              *)
(***************************************************************************)
InRun == pc \notin {"idle", "integrity"}

Returned == pc = "done"

StepNames(ss) == [i \in 1..Len(ss) |-> ss[i].name]

\* The result is the one of the already-patched return: success without a
\* Write step.
IsAllSkippedResult(ok, ss) ==
    ok /\ ss # <<>> /\ ss[Len(ss)].name # "Write"

\* C1: a run with dry_run = true changes nothing on disk: the target keeps
\* its content, the backup file is neither created nor changed, nothing is
\* restored from the backup; for both plans and every initial disk.
C1_DryRunTouchesNothing ==
    (InRun /\ dry_run) =>
        /\ target = pre.target
        /\ bak = pre.bak
        /\ log = <<>>

\* C1 witness: a finished dry run that computed a changed text (all steps
\* succeeded, at least one of them applied) and skipped the write.
C1_Witness ==
    /\ Returned /\ dry_run /\ success
    /\ steps[Len(steps)].name = "Write"
    /\ code # pre.target
    /\ ~pre.bak.exists

\* C2: once <target>.bak exists, no operation (patch run of either plan,
\* live or dry, or revert_all) changes its content or removes it.
C2_BackupNeverChanges == [][bak.exists => bak' = bak]_vars

\* C2 witness: a live run that began with a backup whose content differs
\* from the target went through backup() and wrote the target.
C2_Witness ==
    /\ Returned /\ ~dry_run /\ success
    /\ pre.bak.exists /\ pre.bak.data # pre.target
    /\ "write" \in {log[i] : i \in 1..Len(log)}
    /\ target # bak.data

\* C3 as stated: with no backup before it, every live run without a failed
\* I/O call leaves a backup holding the target's pre-run content, whatever
\* the run's outcome.
C3_Original ==
    (Returned /\ ~dry_run /\ ~pre.bak.exists /\ faults = 0) =>
        bak = File(pre.target)

\* C3 amended: with no backup before it, a live run that returns anything
\* but the already-patched result, a failed Read or a failed Backup step
\* leaves a backup holding the target's pre-run content, whether the run
\* succeeded or failed.
C3_BackupAfterLiveRun ==
    (/\ Returned /\ ~dry_run /\ ~pre.bak.exists
     /\ ~IsAllSkippedResult(success, steps)
     /\ steps[1].name \notin {"Read", "Backup"}) =>
        bak = File(pre.target)

\* C3 witness: such a run that failed at a patch step, and one cannot tell
\* the backup from the untouched target.
C3_Witness ==
    /\ Returned /\ ~dry_run /\ ~pre.bak.exists /\ ~success
    /\ Len(steps) > 1
    /\ bak = File(pre.target)

AllOk(ss) == \A i \in 1..Len(ss) : ss[i].ok

NumPatches == Len(plan.patches)

\* C4 as stated: within a run the disk is mutated only by the one-time
\* creation of the backup and by one final write of the target, made after
\* every configured step succeeded; the target is written nowhere else.
C4_Original ==
    [][InRun =>
         /\ (target' # target \/ bak' # bak) => log' # log
         /\ log' # log =>
              \/ /\ pc = "backup" /\ ~bak.exists /\ bak'.exists
                 /\ (pc' # "done" => bak' = File(target)) /\ target' = target
              \/ /\ pc = "write" /\ pc' = "done" /\ ~dry_run
                 /\ Len(steps) = NumPatches + 1 /\ AllOk(steps)
                 /\ (success' => target' = code) /\ bak' = bak]_vars

\* C4 amended: within a run the disk is mutated only by the one-time
\* creation of the backup, by the restore of the target from the backup that
\* a live run of a restore-before-patch plan makes before discovery, and by
\* one final write of the target, made after every configured step
\* succeeded; the target is written nowhere else.
C4_DiskMutations ==
    [][InRun =>
         /\ (target' # target \/ bak' # bak) => log' # log
         /\ log' # log =>
              \/ /\ pc = "backup" /\ ~bak.exists /\ bak'.exists
                 /\ (pc' # "done" => bak' = File(target)) /\ target' = target
              \/ /\ pc = "restore" /\ ~dry_run
                 /\ plan.restore_before_patch /\ steps = <<>>
                 /\ (pc' # "done" => target' = bak.data) /\ bak' = bak
              \/ /\ pc = "write" /\ pc' = "done" /\ ~dry_run
                 /\ Len(steps) = NumPatches + 1 /\ AllOk(steps)
                 /\ (success' => target' = code) /\ bak' = bak]_vars

\* C4 witness: a live run restored a backup that differs from the target,
\* patched the restored text and wrote it.
C4_Witness ==
    /\ Returned /\ success
    /\ log = <<"restore", "write">>
    /\ pre.bak.data # pre.target
    /\ target # pre.bak.data

\* C5: when a live run succeeded and the same plan is run again on the file
\* it left (and reads it), the second run succeeds with every step of the
\* plan reported as skipped, in plan order, and leaves the file as the first
\* run left it.
C5_SecondRunAllSkipped ==
    (/\ Returned /\ prev.kind = "run" /\ ~prev.dry_run /\ prev.success
     /\ pre = prev.post /\ steps[1].name # "Read") =>
        /\ success
        /\ Len(steps) >= NumPatches + 1
        /\ \A i \in 1..NumPatches :
              steps[i + 1].name = plan.patches[i] /\ steps[i + 1].skipped
        /\ target = prev.post.target

\* C5 witness: the first run applied patches and wrote a changed file; the
\* second, live, run on it has returned.
C5_Witness ==
    /\ Returned /\ ~dry_run /\ success
    /\ prev.kind = "run" /\ ~prev.dry_run /\ prev.success
    /\ prev.steps[Len(prev.steps)].name = "Write"
    /\ prev.post.target # prev.pre.target

\* C6: when quick_detect's flags for the live file satisfy the plan's
\* is_fully_patched, the run returns at once with success, the discovery
\* step followed by every configured step skipped in plan order, and makes
\* no backup, no restore and no write, live or dry.
C6_FullyPatchedReturn ==
    (/\ InRun
     /\ quick_detect(pre.target).some
     /\ is_fully_patched(plan, quick_detect(pre.target))
     /\ ~(steps # <<>> /\ steps[1].name = "Read")) =>
        /\ Returned /\ success
        /\ Len(steps) = NumPatches + 1
        /\ steps[1].name = "Pattern discovery" /\ steps[1].ok
        /\ \A i \in 1..NumPatches :
              /\ steps[i + 1].name = plan.patches[i]
              /\ steps[i + 1].skipped /\ steps[i + 1].ok
        /\ log = <<>> /\ target = pre.target /\ bak = pre.bak

\* C6 witness: a live run on a fully patched file that has no backup.
C6_Witness ==
    /\ Returned /\ ~dry_run /\ success
    /\ is_fully_patched(plan, quick_detect(pre.target))
    /\ ~pre.bak.exists /\ ~bak.exists

DiscoveryFailed ==
    Returned /\ steps[1].name = "Pattern discovery" /\ ~steps[1].ok

\* C7 as stated: when discovery fails, no step is attempted, the failed
\* discovery is the only step of an unsuccessful result, and the target has
\* its pre-run content, for both plans, an existing backup included.
C7_Original ==
    DiscoveryFailed =>
        /\ ~success /\ Len(steps) = 1 /\ idx = 0 /\ code = <<>>
        /\ target = pre.target

\* C7 amended: when discovery fails, no step is attempted and the failed
\* discovery is the only step of an unsuccessful result; the target has its
\* pre-run content, except after a live run of the restore-before-patch
\* plan, where it has the content of the backup (which is the pre-run
\* content when the run itself made the backup).
C7_DiscoveryFailure ==
    DiscoveryFailed =>
        /\ ~success /\ Len(steps) = 1 /\ idx = 0 /\ code = <<>>
        /\ target = IF ~dry_run /\ plan.restore_before_patch /\ pre.bak.exists
                    THEN pre.bak.data ELSE pre.target

\* C7 witness: discovery failed on the text restored from a backup that
\* differs from the pre-run target.
C7_Witness ==
    /\ DiscoveryFailed /\ ~dry_run /\ plan.restore_before_patch
    /\ pre.bak.exists /\ pre.bak.data # pre.target
    /\ discover_vars(pre.target).ok

\* The text and step results that running the plan entries names, in order,
\* on text gives, stopping after the first result with ok = false.
RECURSIVE RunInOrder(_, _, _)
RunInOrder(names, text, d) ==
    IF names = <<>> THEN [code |-> text, steps |-> <<>>]
    ELSE LET r == patch_fn(Head(names), text, d)
         IN  IF ~r.step.ok THEN [code |-> text, steps |-> <<r.step>>]
             ELSE LET rest == RunInOrder(Tail(names), r.code, d)
                  IN  [code |-> rest.code, steps |-> <<r.step>> \o rest.steps]

\* C8: the patch steps run in plan order, each on the text the steps before
\* it produced, and the run stops at the first step with ok = false: the
\* reported patch steps are a prefix of the plan's list, a failed step is
\* the last step of the result, nothing runs or succeeds after it.
C8_StepsInPlanOrderUntilFailure ==
    InRun =>
        /\ \A i \in 1..Len(steps) : ~steps[i].ok => (i = Len(steps) /\ Returned)
        /\ Len(steps) <= NumPatches + 2
        /\ \A i \in 2..Len(steps) :
              steps[i].name = IF i <= NumPatches + 1 THEN plan.patches[i - 1] ELSE "Write"
        /\ (steps # <<>> /\ steps[1].name = "Pattern discovery" /\ steps[1].detail # <<>>) =>
              LET ran == SubSeq(steps, 2, IF Len(steps) = NumPatches + 2
                                          THEN NumPatches + 1 ELSE Len(steps))
                  ref == RunInOrder(plan.patches,
                                    IF "restore" \in {log[i] : i \in 1..Len(log)}
                                    THEN bak.data ELSE pre.target, v)
              IN  /\ ran = SubSeq(ref.steps, 1, Len(ran))
                  /\ (pc \in {"write", "done"} => Len(ran) = Len(ref.steps))
                  /\ (pc = "write" => code = ref.code)

\* C8 witness: a run that applied its first step and failed at a later one.
C8_Witness ==
    /\ Returned /\ ~success
    /\ Len(steps) >= 3 /\ Len(steps) < NumPatches + 1
    /\ steps[2].ok /\ ~steps[2].skipped
    /\ ~steps[Len(steps)].ok

\* C9: in every result run_patch returns, success is the conjunction of the
\* ok flags of the steps the result holds.
C9_SuccessIsAllOk == Returned => (success <=> AllOk(steps))

\* C9 witness: an unsuccessful result holding several steps, not all failed.
C9_Witness ==
    /\ Returned /\ ~success
    /\ Len(steps) >= 3
    /\ steps[2].ok /\ ~steps[2].skipped

\* The outcomes of a dry run and of a live run agree but for the Write step,
\* skipped in the one and ok in the other.
SameButWrite(ds, ls) ==
    /\ Len(ds) = Len(ls)
    /\ \A i \in 1..Len(ds) :
          /\ ds[i].name = ls[i].name
          /\ ds[i].detail = ls[i].detail
          /\ IF ds[i].name = "Write"
             THEN ds[i].ok /\ ds[i].skipped /\ ls[i].ok /\ ~ls[i].skipped
             ELSE ds[i].ok = ls[i].ok /\ ds[i].skipped = ls[i].skipped

\* C10: a dry run and a live run of the same plan, started from the same
\* target and backup and with no I/O call failing, report the same step
\* names, outcomes and detail text, but for the final Write step being
\* skipped instead of ok.
C10_DryRunMatchesLiveRun ==
    (/\ Returned /\ ~dry_run /\ faults = 0
     /\ prev.kind = "run" /\ prev.dry_run /\ prev.pre = pre) =>
        SameButWrite(prev.steps, steps)

RestoreRun == ~dry_run /\ plan.restore_before_patch /\ pre.bak.exists

\* The step a run reports for a discovery made on text.
DiscoveryStepOf(text) ==
    LET r == discover_vars(text)
    IN  IF r.ok
        THEN WithDetail(StepOk("Pattern discovery",
                               <<Msg("Discovered minified variable names")>>),
                        DiscoveryDetail(r.v))
        ELSE StepFail("Pattern discovery", r.err)

\* C11 as stated: every live run of the restore-before-patch plan on a file
\* that has a backup and differs from it (no I/O call failing) overwrites
\* the file from the backup and reports a discovery made on the backup's
\* content.
C11_Original ==
    (Returned /\ RestoreRun /\ pre.target # pre.bak.data /\ faults = 0) =>
        /\ log # <<>> /\ log[1] = "restore"
        /\ steps[1] = DiscoveryStepOf(pre.bak.data)

\* C11 amended: in a live run of the restore-before-patch plan on a file
\* that has a backup, once the run is past the already-patched return and
\* its backup and restore calls, the file holds the backup's content before
\* it is read for discovery, the identifiers are those discovered from that
\* content, and the patch steps are applied to it.
C11_RestoreBeforeDiscovery ==
    (RestoreRun /\ pc \in {"discover", "patch", "write"}) =>
        /\ log = <<"restore">>
        /\ pc = "discover" => target = pre.bak.data
        /\ pc # "discover" =>
              /\ steps[1] = DiscoveryStepOf(pre.bak.data)
              /\ v = discover_vars(pre.bak.data).v
              /\ LET ref == RunInOrder(SubSeq(plan.patches, 1, idx - 1), pre.bak.data, v)
                 IN  code = ref.code /\ SubSeq(steps, 2, Len(steps)) = ref.steps

\* C11 witness: the hand-edited file lost a patch and names things as
\* another build does; the run discovered the backup's identifiers and
\* applied every step to the backup's content.
C11_Witness ==
    /\ RestoreRun /\ pc = "write"
    /\ ~AlreadyPatched(plan, pre.target)
    /\ discover_vars(pre.target).ok
    /\ discover_vars(pre.target).v.hint_var # v.hint_var
    /\ code # pre.bak.data

WriteFailed ==
    Returned /\ steps[Len(steps)].name = "Write" /\ ~steps[Len(steps)].ok

\* C12: when the final write fails after every patch step succeeded, the
\* result is unsuccessful, its last step is the failed Write step after the
\* successful discovery and patch steps, and the target holds the content
\* it had when run_patch was called.
C12_WriteFailureKeepsFile ==
    WriteFailed =>
        /\ ~success
        /\ Len(steps) = NumPatches + 2
        /\ \A i \in 1..(Len(steps) - 1) : steps[i].ok
        /\ target = pre.target

HasWrite(ss) == \E i \in 1..Len(ss) : ss[i].name = "Write"

\* The run was not short-circuited, and discovery and every configured patch
\* step succeeded.
AllStepsSucceeded ==
    /\ ~AlreadyPatched(plan, pre.target)
    /\ Len(steps) >= NumPatches + 1
    /\ steps[1].name = "Pattern discovery"
    /\ \A i \in 1..(NumPatches + 1) : steps[i].ok

\* C13 as stated: a result holds a Write step exactly when the run was not
\* short-circuited and discovery and every patch step succeeded; that step
\* is the last one; in a live run it is ok and not skipped and the target
\* holds the accumulated text; in a dry run it is skipped and the target is
\* as before.
C13_Original ==
    Returned =>
        /\ HasWrite(steps) <=> AllStepsSucceeded
        /\ HasWrite(steps) =>
              LET w == steps[Len(steps)]
              IN  /\ w.name = "Write" /\ Len(steps) = NumPatches + 2
                  /\ ~dry_run => (w.ok /\ ~w.skipped /\ target = code)
                  /\ dry_run => (w.ok /\ w.skipped /\ target = pre.target)

\* C13 amended: as above, but in a live run the Write step is ok and not
\* skipped, with the target holding the accumulated text, only when the
\* write succeeds; when the write fails the Write step is a failed step and
\* the result is unsuccessful.
C13_WriteStep ==
    Returned =>
        /\ HasWrite(steps) <=> AllStepsSucceeded
        /\ HasWrite(steps) =>
              LET w == steps[Len(steps)]
              IN  /\ w.name = "Write" /\ Len(steps) = NumPatches + 2
                  /\ ~dry_run =>
                        \/ w.ok /\ ~w.skipped /\ success /\ target = code
                        \/ ~w.ok /\ ~w.skipped /\ ~success
                  /\ dry_run => (w.ok /\ w.skipped /\ success /\ target = pre.target)

\* C13 witness: a live run wrote an accumulated text that differs from the
\* file it began with.
C13_Witness ==
    /\ Returned /\ ~dry_run /\ HasWrite(steps)
    /\ steps[Len(steps)].ok /\ target = code /\ code # pre.target

\* The order of the phases of run_patch: one step of the driver.
PhaseOrder ==
    /\ pc = "idle" =>
          \/ pc' = "idle"
          \/ pc' = "done" /\ (success' => AlreadyPatched(plan, target))
          \/ pc' = "backup" /\ ~dry_run' /\ ~AlreadyPatched(plan, target)
          \/ pc' = "discover" /\ dry_run' /\ ~AlreadyPatched(plan, target)
    /\ pc = "backup" =>
          \/ pc' = "restore" /\ plan.restore_before_patch
          \/ pc' = "discover" /\ ~plan.restore_before_patch
          \/ pc' = "done" /\ ~success'
    /\ pc = "restore" => (pc' = "discover" \/ (pc' = "done" /\ ~success'))
    /\ pc = "discover" =>
          \/ pc' = "patch" /\ idx' = 1
          \/ pc' = "done" /\ ~success'
    /\ pc = "patch" =>
          \/ pc' = "panic"
          \/ pc' = "patch" /\ idx' = idx + 1 /\ idx < NumPatches
          \/ pc' = "write" /\ idx = NumPatches
          \/ pc' = "done" /\ ~success'
    /\ pc = "write" => pc' = "done"
    /\ pc = "done" => pc' \in {"idle", "integrity"}

Fails == pc # "done" /\ pc' = "done" /\ ~success'

\* C14 as stated: the driver goes through its phases in the order read and
\* detect, then the fully-patched return or backup and restore, discovery,
\* the patch steps 1..N, write, done; and a failed outcome is reached only
\* from discovery or from a patch step.
C14_Original ==
    [][PhaseOrder /\ (Fails => pc \in {"discover", "patch"})]_vars

\* C14 amended: the phases follow each other in that order; a failed
\* outcome is reached from the first read, from the backup, from the
\* restore, from the re-read and discovery, from a patch step or from the
\* write, and its last step names the phase that failed.
C14_PhaseOrder ==
    [][/\ PhaseOrder
       /\ Fails =>
             LET last == steps'[Len(steps')].name
             IN  /\ ~steps'[Len(steps')].ok
                 /\ \/ pc = "idle" /\ last = "Read"
                    \/ pc = "backup" /\ last = "Backup"
                    \/ pc = "restore" /\ last = "Restore"
                    \/ pc = "discover" /\ last \in {"Read", "Pattern discovery"}
                    \/ pc = "patch" /\ last = plan.patches[idx]
                    \/ pc = "write" /\ last = "Write"]_vars

\* C14 witness: a live run that went through detection and backup and failed
\* in the restore.
C14_Witness ==
    /\ Returned /\ ~dry_run /\ ~success
    /\ steps[1].name = "Restore"
    /\ Len(log) >= 1 /\ log[1] = "backup"

\* C15: cmd_patch invokes update_integrity only right after patch_ide_agent
\* returned success = true in a live run, on the file that run left; after a
\* failed IDE run, after a dry run and after patch_cli_agent no call follows.
C15_IntegrityOnlyAfterLiveIdeSuccess ==
    [][/\ integrity' # integrity =>
             /\ integrity'.calls = integrity.calls + 1
             /\ plan = IDE_PLAN
             /\ prev.kind = "run" /\ prev.success /\ ~prev.dry_run
             /\ target = prev.post.target /\ integrity'.main = target
       /\ (pc = "done" /\ pc' # "done") =>
             (pc' = "integrity" <=> (plan = IDE_PLAN /\ success /\ ~dry_run))
       /\ (pc = "integrity" /\ pc' # "integrity") => integrity' # integrity]_vars

\* C15 witness: update_integrity has been called after a live IDE run that
\* patched and wrote the file.
C15_Witness ==
    /\ integrity.calls = 1 /\ pc = "idle"
    /\ prev.kind = "run" /\ prev.success /\ ~prev.dry_run
    /\ prev.steps[Len(prev.steps)].name = "Write"
    /\ integrity.main = prev.post.target /\ integrity.main # prev.pre.target

(***************************************************************************)
(* The five patch functions on their own: a text and a DiscoveredVars are  *)
(* chosen, one patch function is applied to them.  target holds the input  *)
(* text, v the input symbols, code and steps what the function returned.   *)
(***************************************************************************)

\* index.js with the three patches of the CLI plan applied.
CliPatched == RunInOrder(CLI_PLAN.patches, CliBase, discover_vars(CliBase).v).code

\* Input texts: those of the driver, patched files, and patched files that
\* lost one fragment.
StepTexts ==
    CliTexts \cup IdeTexts \cup {CliPatched, IdeUniFallback, IdeUniHeader, IdeTwoFallbacks}
      \cup NaiveCaseTexts \cup DiscoverTexts
      \cup UniTexts(CliBase) \cup UniTexts(IdeBase)
      \cup {Drop(CliPatched, i) : i \in 1..Len(CliPatched)}
      \cup {Drop(IdeHandEdited, i) : i \in 1..Len(IdeHandEdited)}

\* Input symbols: those discovery finds in any of the texts, or none.
StepVars ==
    {discover_vars(t).v : t \in {x \in StepTexts : discover_vars(x).ok}} \cup {NoVars}

AllPatches ==
    {"Nu detection", "System nu detection", "userTerminalHint", "Naive case",
     "Shell path fallback"}

StepInit ==
    /\ plan = IDE_PLAN
    /\ target \in StepTexts
    /\ v \in StepVars
    /\ bak = NoFile
    /\ pc = "call"
    /\ dry_run = TRUE
    /\ code = <<>>
    /\ idx = 0
    /\ steps = <<>>
    /\ success = FALSE
    /\ pre = [target |-> target, bak |-> bak]
    /\ log = <<>>
    /\ prev = NoOp
    /\ ops = 0
    /\ faults = 0
    /\ integrity = [calls |-> 0, main |-> <<>>]
    /\ det = NoDetect
    /\ product = NoProduct
    /\ out = NoOut
    /\ sums_match = "unset"
    /\ verified = NotVerified

\* let (new_code, step) = patch_fn(&code, &v);
ApplyPatch(name) ==
    /\ pc = "call"
    /\ pc' = IF patch_fn(name, target, v).step = Panicked THEN "panic" ELSE "returned"
    /\ code' = patch_fn(name, target, v).code
    /\ steps' = <<patch_fn(name, target, v).step>>
    /\ UNCHANGED sumVars
    /\ UNCHANGED <<plan, target, bak, dry_run, v, idx, success, pre, log, prev,
                   ops, faults, integrity, det>>

\* let v = match discover_vars(&code) { Ok(v) => v, Err(e) => ... };
CallDiscoverVars ==
    /\ pc = "call"
    /\ pc' = "discovered"
    /\ LET r == discover_vars(target)
       IN  IF r.ok
           THEN /\ v' = r.v
                /\ steps' = <<WithDetail(
                                StepOk("Pattern discovery",
                                       <<Msg("Discovered minified variable names")>>),
                                DiscoveryDetail(r.v))>>
           ELSE /\ v' = NoVars
                /\ steps' = <<StepFail("Pattern discovery", r.err)>>
    /\ UNCHANGED sumVars
    /\ UNCHANGED <<plan, target, bak, dry_run, code, idx, success, pre, log, prev,
                   ops, faults, integrity, det>>

\* quick_detect(&live_code)
CallQuickDetect ==
    /\ pc = "call"
    /\ pc' = "detected"
    /\ det' = quick_detect(target)
    /\ UNCHANGED sumVars
    /\ UNCHANGED <<plan, target, bak, dry_run, code, v, idx, steps, success, pre,
                   log, prev, ops, faults, integrity>>

StepNext ==
    \/ \E name \in AllPatches : ApplyPatch(name)
    \/ CallDiscoverVars
    \/ CallQuickDetect

StepSpec == StepInit /\ [][StepNext]_vars

Applied(name) == pc = "returned" /\ steps[1].name = name

\* The symbols are those discovery finds in the input text itself.
Fresh == discover_vars(target).ok /\ v = discover_vars(target).v

SkippedUnchanged ==
    code = target /\ steps[1].ok /\ steps[1].skipped /\ steps[1].detail = <<>>

\* The Naive branch patch_shell_path_fallback inserts for symbols d.
FallbackBranch(d) ==
    <<Tok("caseNaive", d.enum_var, ""), Tok("np", "", "")>> \o d.find_exec_call
      \o <<Tok("nuArgs", "", ""), Tok("cmdIf", "", "")>>

\* C16: applied to a text with the symbols discovered from that text, each
\* of the five patch functions returns the text unchanged with a skipped
\* result when what it installs is there already: its presence flag is set
\* or, for patch_shell_path_fallback, the Naive branch it builds from the
\* discovered call is in the text.
C16_PresentMeansSkipped ==
    (pc = "returned" /\ Fresh) =>
        /\ (Applied("Nu detection") /\ v.has_nu_detection) => SkippedUnchanged
        /\ (Applied("System nu detection") /\ v.has_system_nu) => SkippedUnchanged
        /\ (Applied("userTerminalHint") /\ v.has_user_terminal_hint) => SkippedUnchanged
        /\ (Applied("Naive case") /\ v.has_naive_case) => SkippedUnchanged
        /\ (/\ Applied("Shell path fallback")
            /\ v.find_exec_call # <<>>
            /\ Contains(target, FallbackBranch(v))) => SkippedUnchanged

\* C16 witness: patch_shell_path_fallback was applied to a patched file
\* that holds its branch.
C16_Witness ==
    /\ Applied("Shell path fallback") /\ Fresh
    /\ Contains(target, FallbackBranch(v))
    /\ v.has_nu_detection /\ v.has_system_nu /\ v.has_user_terminal_hint

\* C17: for every patch function, every input text and every DiscoveredVars,
\* fresh or not, what the function returns is either a failed or skipped
\* result with the input text, or an ok, not skipped result with a text that
\* differs from the input: no changed text with a failure, no success that
\* is not skipped with the text unchanged.
C17_TextAndResultAgree ==
    pc = "returned" =>
        \/ (~steps[1].ok \/ steps[1].skipped) /\ code = target
        \/ steps[1].ok /\ ~steps[1].skipped /\ code # target

\* C17 witness: a function changed the text although the symbols it was
\* given are not those of the text.
C17_Witness ==
    /\ pc = "returned" /\ discover_vars(target).ok /\ ~Fresh
    /\ steps[1].ok /\ ~steps[1].skipped /\ code # target

Succeeded(s) == s.ok /\ ~s.skipped

\* C18 as stated: in every result run_patch returns, each step that is ok
\* and not skipped has a non-empty detail, each skipped or failed step an
\* empty one.
C18_Original ==
    Returned =>
        \A i \in 1..Len(steps) :
            /\ Succeeded(steps[i]) => steps[i].detail # <<>>
            /\ ~Succeeded(steps[i]) => steps[i].detail = <<>>

\* C18 amended: in every result run_patch returns, each skipped or failed
\* step has an empty detail; a step that is ok and not skipped has a
\* non-empty detail when it is a patch step or the discovery step of a full
\* discovery, and an empty one when it is the Write step or the discovery
\* step of the already-patched return.
C18_DetailPayload ==
    Returned =>
        \A i \in 1..Len(steps) :
            /\ ~Succeeded(steps[i]) => steps[i].detail = <<>>
            /\ Succeeded(steps[i]) =>
                  (steps[i].detail = <<>> <=>
                     \/ steps[i].name = "Write"
                     \/ /\ steps[i].name = "Pattern discovery"
                        /\ AlreadyPatched(plan, pre.target))

\* C18 witness: a live run whose steps all applied and whose write
\* succeeded: details on discovery and on each patch step, none on Write.
C18_Witness ==
    /\ Returned /\ ~dry_run /\ success /\ Len(steps) = NumPatches + 2
    /\ \A i \in 1..Len(steps) : Succeeded(steps[i])
    /\ steps[2].detail # <<>>

FailedUnchanged ==
    code = target /\ ~steps[1].ok /\ ~steps[1].skipped /\ steps[1].detail = <<>>

\* The anchors of patch_nu_detection for symbols d: the pwsh checks on the
\* hint variable that lie within 2000 bytes from the first zsh check on it.
NuAnchors(text, d) ==
    LET zsh == Occ(text, <<Tok("zshI", d.hint_var, "")>>)
    IN  IF zsh = {} THEN {}
        ELSE {j \in Min(zsh)..Len(text) :
                /\ text[j] = Tok("pwsh", d.hint_var, "")
                /\ Off(text, j + 1) <= Off(text, Min(zsh)) + NuRegion}

\* The anchors of patch_system_nu_detection: <enum>.PowerShell:<enum>.Naive}
SysNuAnchors(text, d) ==
    Occ(text, <<Tok("psC", d.enum_var, ""), Tok("nvB", d.enum_var, "")>>)

NuClause(d) == <<Tok("nuT", d.hint_var, d.enum_var)>>

SysNuClause(d) == <<Tok("sysNu", d.cmd_exists_fn, d.enum_var)>>

ZshThenPwsh(text, d) ==
    /\ \E i \in Occ(text, <<Tok("zshI", d.hint_var, "")>>) :
         \E j \in Occ(text, <<Tok("pwsh", d.hint_var, "")>>) : i < j
    /\ ~HasNuDetection(text, d.enum_var)

\* The first pwsh check on the hint variable of d after its first zsh check.
FirstPwsh(text, d) ==
    Min({j \in Occ(text, <<Tok("pwsh", d.hint_var, "")>>) :
           j > Min(Occ(text, <<Tok("zshI", d.hint_var, "")>>))})

\* C20: applied with the symbols discovered from it to a text that holds
\* the zsh check and a later pwsh check and no nu check, patch_nu_detection
\* returns a successful, not skipped result and the text with the nu clause
\* spliced in immediately before the pwsh check, nothing else changed.
C20_NuDetectionInserts ==
    [][(ApplyPatch("Nu detection") /\ Fresh /\ ZshThenPwsh(target, v)) =>
          /\ pc' = "returned"
          /\ steps'[1].ok /\ ~steps'[1].skipped
          /\ code' = Splice(target, FirstPwsh(target, v), NuClause(v))]_vars

\* C20 restricted to the calls that return and whose pwsh check lies within
\* 2000 bytes from the zsh check.
C20_WithinWindowReturned ==
    [][(ApplyPatch("Nu detection") /\ Fresh /\ ZshThenPwsh(target, v)
          /\ pc' = "returned" /\ NuAnchors(target, v) # {}) =>
          /\ steps'[1].ok /\ ~steps'[1].skipped
          /\ code' = Splice(target, Min(NuAnchors(target, v)), NuClause(v))]_vars

\* The original fallback literal of getShellExecutablePath.
FallbackLiteral == <<Tok("dflt", "", ""), Tok("retSh", "", "")>>

\* The text holds the fallback literal exactly once, and a
\* findActualExecutable token within the 500 bytes before it.
OneFallbackNearFex(text) ==
    /\ Cardinality(Occ(text, FallbackLiteral)) = 1
    /\ \E t \in 1..Len(text) :
         /\ text[t].k = "fex"
         /\ t < Min(Occ(text, FallbackLiteral))
         /\ Off(text, t) + FallbackContext >= Off(text, Min(Occ(text, FallbackLiteral)))

\* new is old with the literal at token i replaced by a `case <e>.Naive:`
\* branch (5 tokens) followed by the updated default: branch.
NaiveBeforeDefault(old, new, i, e) ==
    /\ Len(new) = Len(old) + 5
    /\ SubSeq(new, 1, i - 1) = SubSeq(old, 1, i - 1)
    /\ new[i] = Tok("caseNaive", e, "")
    /\ new[i + 1] = Tok("np", "", "")
    /\ new[i + 2].k \in {"fex", "fexR"}
    /\ new[i + 3] = Tok("nuArgs", "", "")
    /\ new[i + 4] = Tok("cmdIf", "", "")
    /\ new[i + 5] = Tok("dflt", "", "")
    /\ new[i + 6] = Tok("retWin", "", "")
    /\ SubSeq(new, i + 7, Len(new)) = SubSeq(old, i + 2, Len(old))

\* C21: applied with the symbols discovered from it to a text that holds
\* the fallback literal exactly once, within 500 bytes of a
\* findActualExecutable token, patch_shell_path_fallback returns a
\* successful, not skipped result and the text in which a new
\* `case <enum>.Naive:` branch followed by the updated default: branch
\* replaces the literal.
C21_FallbackReplaced ==
    [][(ApplyPatch("Shell path fallback") /\ Fresh /\ OneFallbackNearFex(target)) =>
          /\ pc' = "returned"
          /\ steps'[1].ok /\ ~steps'[1].skipped
          /\ NaiveBeforeDefault(target, code', Min(Occ(target, FallbackLiteral)),
                                v.enum_var)]_vars

\* C21 restricted to the calls that return, with the findActualExecutable
\* call discovered and no `<call>("nu",[])` in the text yet.
C21_ReturnedWithCall ==
    [][(/\ ApplyPatch("Shell path fallback") /\ Fresh /\ OneFallbackNearFex(target)
        /\ pc' = "returned" /\ v.find_exec_call # <<>>
        /\ ~Contains(target, v.find_exec_call \o <<Tok("nuArgs", "", "")>>)) =>
          /\ steps'[1].ok /\ ~steps'[1].skipped
          /\ NaiveBeforeDefault(target, code', Min(Occ(target, FallbackLiteral)),
                                v.enum_var)]_vars

\* The context check of patch_shell_path_fallback as the claim words it: the
\* 500 bytes before the first occurrence of the literal hold
\* findActualExecutable or PowerShell.
FallbackContextOk(text) ==
    LET fi == Min(Occ(text, FallbackLiteral))
    IN  \E t \in 1..(fi - 1) :
          \/ text[t].k = "fex"
               /\ Off(text, t) + FaeOffsetInFex + FallbackContext >= Off(text, fi)
          \/ text[t].k = "psC"
               /\ Off(text, t) + PsOffsetInPsC + FallbackContext >= Off(text, fi)

\* The call was patch_shell_path_fallback in its find/replace part: it had
\* a findActualExecutable call to insert and did not find the text patched.
FallbackAttempted ==
    /\ Applied("Shell path fallback")
    /\ v.find_exec_call # <<>>
    /\ ~Contains(target, v.find_exec_call \o <<Tok("nuArgs", "", "")>>)

\* C22: patch_shell_path_fallback replaces the literal (ok, not skipped)
\* only when the literal occurs exactly once and the context check passes;
\* when the literal is absent, occurs more than once, or the context check
\* does not pass, it returns a failed result and the text unchanged.
C22_SingleLiteralOrFail ==
    FallbackAttempted =>
        /\ (steps[1].ok /\ ~steps[1].skipped) =>
              /\ Cardinality(Occ(target, FallbackLiteral)) = 1
              /\ FallbackContextOk(target)
        /\ Cardinality(Occ(target, FallbackLiteral)) # 1 => FailedUnchanged
        /\ (Contains(target, FallbackLiteral) /\ ~FallbackContextOk(target)) =>
              FailedUnchanged

\* C22 without the "more than once" case: the literal is replaced only when
\* it is present and the context check passes at its first occurrence;
\* when it is absent or that check does not pass, the result is failed and
\* the text unchanged.
C22_AbsentOrContextFails ==
    FallbackAttempted =>
        /\ (steps[1].ok /\ ~steps[1].skipped) =>
              /\ Contains(target, FallbackLiteral)
              /\ FallbackContextOk(target)
              /\ code = Replacen1(target, FallbackLiteral,
                          SubSeq(code, Min(Occ(target, FallbackLiteral)),
                                 Min(Occ(target, FallbackLiteral)) + 6))
        /\ ~Contains(target, FallbackLiteral) => FailedUnchanged
        /\ (Contains(target, FallbackLiteral) /\ ~FallbackContextOk(target)) =>
              FailedUnchanged

\* A text with two occurrences of the literal was patched: the first
\* occurrence replaced, the second left as it was.
C22_SecondLeft ==
    /\ FallbackAttempted
    /\ Cardinality(Occ(target, FallbackLiteral)) = 2
    /\ steps[1].ok /\ ~steps[1].skipped
    /\ Cardinality(Occ(code, FallbackLiteral)) = 1

\* patch_naive_case got as far as looking for its insertion point.
NaiveCaseSearches ==
    /\ Applied("Naive case")
    /\ ~v.has_naive_case /\ v.lazy_exec # "" /\ v.naive_exec # ""
    /\ v.find_exec_call # <<>>
    /\ Contains(target, <<Tok("caseZsh", v.enum_var, "")>>)

FirstZshCase == Min(Occ(target, <<Tok("caseZsh", v.enum_var, "")>>))

\* Positions of default: / case <enum>.ZshLight: from the first Zsh case on.
DefaultsAfterZsh ==
    {j \in FirstZshCase..Len(target) : target[j] = Tok("dflt", "", "")}

ZshLightsAfterZsh ==
    {j \in FirstZshCase..Len(target) : target[j] = Tok("caseZshLight", v.enum_var, "")}

\* The first default: after the Zsh case starts less than 10000 bytes after
\* the start of that case.
DefaultInWindow ==
    /\ DefaultsAfterZsh # {}
    /\ Off(target, Min(DefaultsAfterZsh)) - Off(target, FirstZshCase) < 10000

\* The returned text is the input with a `case <enum>.Naive:` block put in
\* immediately before token i, and the result is ok.
NaiveInsertedBefore(i) ==
    /\ steps[1].ok /\ ~steps[1].skipped
    /\ Len(code) > Len(target)
    /\ SubSeq(code, 1, i - 1) = SubSeq(target, 1, i - 1)
    /\ code[i] = Tok("caseNaive", v.enum_var, "")
    /\ SubSeq(code, i + Len(code) - Len(target), Len(code)) = SubSeq(target, i, Len(target))

\* C23: patch_naive_case inserts immediately before the first default: that
\* follows the first `case <enum>.Zsh:` when that default: lies less than
\* 10000 bytes after the Zsh case; otherwise immediately before the first
\* `case <enum>.ZshLight:` after the Zsh case; when there is neither, it
\* returns a failed result and the text unchanged.
C23_TwoTierInsertionPoint ==
    NaiveCaseSearches =>
        IF DefaultInWindow THEN NaiveInsertedBefore(Min(DefaultsAfterZsh))
        ELSE IF ZshLightsAfterZsh # {} THEN NaiveInsertedBefore(Min(ZshLightsAfterZsh))
        ELSE FailedUnchanged

\* C23 witness: the first default: after the Zsh case lay outside the
\* window although a ZshLight case came before it, and the block went in
\* before the ZshLight case.
C23_Witness ==
    /\ NaiveCaseSearches /\ Fresh
    /\ DefaultsAfterZsh # {} /\ ~DefaultInWindow
    /\ ZshLightsAfterZsh # {}
    /\ NaiveInsertedBefore(Min(ZshLightsAfterZsh))

\* The text matches (\w+)\.includes\("zsh"\)\?(\w+)\.Zsh somewhere.
HasZshTernary(text) ==
    \E i \in 1..(Len(text) - 1) : text[i].k = "zshI" /\ text[i + 1].k = "qZsh"

\* The text holds the command-exists helper function.
HasHelper(text) ==
    \E i \in 1..(Len(text) - 2) :
        text[i].k = "fnHead" /\ text[i + 1].k \in {"fex", "fexR"} /\ text[i + 2].k = "fnTail"

\* The text holds `new X(` on the line of some token of kind k, after it.
NewOnLineAfter(text, k) ==
    \E i \in 1..Len(text) : \E j \in (i + 1)..Len(text) :
        /\ text[i].k = k /\ text[j].k = "newX"
        /\ \A m \in (i + 1)..(j - 1) : text[m].k # "nl"

DiscoverErr == pc = "discovered" /\ ~steps[1].ok

DiscoverOk == pc = "discovered" /\ steps[1].ok

\* C24: discover_vars fails exactly when the text has no match for the zsh
\* ternary anchor; with the anchor present, a missing first executor class,
\* second executor class or command-exists helper leaves the result ok and
\* the corresponding field absent.
C24_FailsOnlyWithoutAnchor ==
    pc = "discovered" =>
        /\ DiscoverErr <=> ~HasZshTernary(target)
        /\ DiscoverOk =>
              /\ ~NewOnLineAfter(target, "caseZsh") => v.lazy_exec = ""
              /\ (/\ ~NewOnLineAfter(target, "caseNaive")
                  /\ ~\E i \in 1..(Len(target) - 1) :
                        target[i].k = "newX" /\ target[i + 1].k \in {"cwdSh", "spreadSh"})
                    => v.naive_exec = ""
              /\ ~HasHelper(target) => (v.cmd_exists_fn = "" /\ v.find_exec_call = <<>>)

\* C24 witness: discovery succeeded on a text with the anchor and none of
\* the three optional shapes.
C24_Witness ==
    /\ DiscoverOk /\ HasZshTernary(target)
    /\ v.lazy_exec = "" /\ v.naive_exec = "" /\ v.cmd_exists_fn = ""

\* C25: quick_detect returns None exactly when discover_vars fails on the
\* same text, and otherwise its four flags equal the four presence flags
\* discover_vars computes for that text.
C25_QuickDetectAgrees ==
    pc = "detected" =>
        /\ det.some <=> discover_vars(target).ok
        /\ det.some =>
              /\ det.has_nu = discover_vars(target).v.has_nu_detection
              /\ det.has_system_nu = discover_vars(target).v.has_system_nu
              /\ det.has_naive_case = discover_vars(target).v.has_naive_case
              /\ det.has_uth = discover_vars(target).v.has_user_terminal_hint

\* C25 witness: quick_detect ran on a text in which some of the patches
\* are present and others are not.
C25_Witness ==
    /\ pc = "detected" /\ det.some
    /\ det.has_nu /\ det.has_system_nu /\ ~det.has_uth /\ ~det.has_naive_case

\* C26: the second executor class discover_vars returns is the identifier
\* of the first of the three shapes, in the order existing Naive case /
\* process.cwd() / {...spread, that matches the text; it is absent only when
\* none matches.
C26_FirstShapeWins ==
    DiscoverOk =>
        LET a == NaiveExecA(target, v.enum_var)
            c == NaiveExecC(target)
            d == NaiveExecD(target)
        IN  /\ a # "" => v.naive_exec = a
            /\ (a = "" /\ c # "") => v.naive_exec = c
            /\ (a = "" /\ c = "" /\ d # "") => v.naive_exec = d
            /\ v.naive_exec = "" <=> (a = "" /\ c = "" /\ d = "")

\* C26 witness: the text has a Naive case the first shape does not match,
\* and both other shapes with different identifiers; the process.cwd()
\* shape gave the class.
C26_Witness ==
    /\ DiscoverOk
    /\ Contains(target, <<Tok("caseNaive", v.enum_var, "")>>)
    /\ NaiveExecA(target, v.enum_var) = ""
    /\ NaiveExecC(target) # "" /\ NaiveExecD(target) # ""
    /\ NaiveExecC(target) # NaiveExecD(target)
    /\ v.naive_exec = NaiveExecC(target)

\* revert_all has just run, after a patch run that began with no backup.
RevertedAfterRun ==
    pc = "idle" /\ prev.kind = "revert" /\ ops >= 2 /\ ~pre.bak.exists

\* C27: for a target without a backup, a patch run (either plan, live or
\* dry, any outcome) followed by revert_all leaves the target with the
\* content it had before the run; revert_all reports restored = true
\* exactly when the backup file exists, and leaves a target without backup
\* unchanged.
C27_RunThenRevertRestores ==
    /\ RevertedAfterRun => target = pre.target
    /\ prev.kind = "revert" =>
          /\ prev.restored <=> prev.pre.bak.exists
          /\ ~prev.pre.bak.exists => prev.post.target = prev.pre.target

\* C27 when no I/O call has failed.
C27_WithoutFailedIo ==
    faults = 0 => C27_RunThenRevertRestores

\* A failed backup left a cut-short .bak file, and revert_all copied it
\* over the target, which the run itself had not touched.
C27_TornBackupRestored ==
    /\ RevertedAfterRun /\ prev.restored
    /\ prev.pre.target = pre.target
    /\ target # pre.target
    /\ target = bak.data

\* Step i of the result is one of the plan's patch steps, reported skipped.
ReportedSkipped(i) ==
    /\ steps[i].skipped
    /\ \E k \in 1..Len(plan.patches) : plan.patches[k] = steps[i].name

\* The change of the step named name is present in the file on disk: the
\* step function, run on it with freshly discovered symbols, returns it
\* unchanged with a skipped result.
PresentOnDisk(name) ==
    /\ discover_vars(target).ok
    /\ patch_fn(name, target, discover_vars(target).v).code = target
    /\ patch_fn(name, target, discover_vars(target).v).step.skipped

\* The run returned by the already-patched short-circuit.
ShortCircuited == Returned /\ IsAllSkippedResult(success, steps)

\* C28: whenever run_patch reports a patch step of the plan as skipped,
\* that step's change is present in the file on disk; in particular for
\* the four steps of the IDE plan on the short-circuit path.
C28_SkippedMeansPresent ==
    Returned =>
        \A i \in 1..Len(steps) : ReportedSkipped(i) => PresentOnDisk(steps[i].name)

\* C28 for everything but the Shell path fallback step of a short-circuited
\* run, when no I/O call has failed.
C28_ButShortCircuitFallback ==
    (Returned /\ faults = 0) =>
        \A i \in 1..Len(steps) :
            (/\ ReportedSkipped(i)
             /\ ~(ShortCircuited /\ steps[i].name = "Shell path fallback")) =>
                PresentOnDisk(steps[i].name)

\* A short-circuited IDE run reported Shell path fallback as skipped on a
\* file that still holds the original fallback literal, which the step
\* function would replace.
C28_FallbackNotPresent ==
    /\ ShortCircuited /\ plan = IDE_PLAN /\ faults = 0
    /\ steps[5].name = "Shell path fallback" /\ steps[5].skipped
    /\ Contains(target, FallbackLiteral)
    /\ LET r == patch_fn("Shell path fallback", target, discover_vars(target).v)
       IN  r.step.ok /\ ~r.step.skipped /\ r.code # target

\* The text the steps of the IDE plan, run in order with the symbols
\* discovered from text, make of text (text itself when discovery fails).
IdePipeline(text) ==
    IF discover_vars(text).ok
    THEN RunInOrder(IDE_PLAN.patches, text, discover_vars(text).v).code
    ELSE text

\* A live run of the IDE plan has succeeded by patching and writing.
IdeLiveSuccess ==
    /\ Returned /\ ~dry_run /\ success /\ plan = IDE_PLAN
    /\ steps[Len(steps)].name = "Write"

BackupWasPreRun == ~pre.bak.exists \/ pre.bak.data = pre.target

\* C29 as stated: after a successful, not short-circuited live run of the
\* IDE plan the target is the step pipeline applied to the backup's
\* content, and it is the pipeline applied to the pre-run content only when
\* no backup existed before the run or the backup equalled that content.
C29_Original ==
    IdeLiveSuccess =>
        /\ bak.exists /\ target = IdePipeline(bak.data)
        /\ (discover_vars(pre.target).ok /\ target = IdePipeline(pre.target)) =>
              BackupWasPreRun

\* C29 amended: after such a run the target is the step pipeline applied to
\* the backup's content; when no backup existed before the run or the
\* backup equalled the pre-run content, that is the pipeline applied to the
\* pre-run content.
C29_PipelineOfBackup ==
    IdeLiveSuccess =>
        /\ bak.exists /\ target = IdePipeline(bak.data)
        /\ BackupWasPreRun => target = IdePipeline(pre.target)

\* C29 witness: the run began with a backup from another build than the
\* target; the target now is the patched backup, not the patched pre-run
\* file.
C29_Witness ==
    /\ IdeLiveSuccess
    /\ pre.bak.exists /\ pre.bak.data # pre.target
    /\ target = IdePipeline(bak.data)
    /\ discover_vars(pre.target).ok /\ target # IdePipeline(pre.target)

(***************************************************************************)
(* The two checksum queries, on one installation: check_status (the status *)
(* command) and cmd_verify (the verify command), each asked once, in       *)
(* either order, while the files stay as they are.                         *)
(***************************************************************************)

\* The checksums sections: any set of listed paths, each with an expected
\* digest ("" for a value that is not a string).
ChecksumSections ==
    UNION {[S -> Digests \cup {""}] : S \in SUBSET Paths}

SumInit ==
    /\ product \in [readable : BOOLEAN, checksums : ChecksumSections]
    /\ out \in [Paths -> {Missing, Unreadable} \cup {Hashed(h) : h \in Digests}]
    /\ sums_match = "unset"
    /\ verified = NotVerified
    /\ plan = IDE_PLAN
    /\ target = <<>>
    /\ bak = NoFile
    /\ pc = "idle"
    /\ dry_run = FALSE
    /\ code = <<>>
    /\ v = NoVars
    /\ idx = 0
    /\ steps = <<>>
    /\ success = FALSE
    /\ pre = [target |-> <<>>, bak |-> NoFile]
    /\ log = <<>>
    /\ prev = NoOp
    /\ ops = 0
    /\ faults = 0
    /\ integrity = [calls |-> 0, main |-> <<>>]
    /\ det = NoDetect

\* check_status, lines 842-847:
\* status.integrity.product_checksums_match = checksums_all_match(...)
check_status ==
    /\ sums_match = "unset"
    /\ sums_match' = checksums_all_match(product, out)
    /\ UNCHANGED <<product, out, verified>>
    /\ UNCHANGED <<plan, target, bak, pc, dry_run, code, v, idx, steps, success,
                   pre, log, prev, ops, faults, integrity, det>>

\* cmd_verify: integrity::verify_checksums(product_json, cursor_app)
cmd_verify ==
    /\ ~verified.called
    /\ verified' = verify_checksums(product, out)
    /\ UNCHANGED <<product, out, sums_match>>
    /\ UNCHANGED <<plan, target, bak, pc, dry_run, code, v, idx, steps, success,
                   pre, log, prev, ops, faults, integrity, det>>

SumNext == check_status \/ cmd_verify

SumSpec == SumInit /\ [][SumNext]_vars

\* Both queries have been answered, for a product.json that can be read
\* and has a non-empty checksums section.
BothAnswered ==
    /\ sums_match # "unset" /\ verified.called
    /\ product.readable /\ DOMAIN product.checksums # {}

\* C30: for every product.json with a non-empty checksums section and
\* every state of the files, checksums_all_match returns Some(true) exactly
\* when verify_checksums reports all_match = true.
C30_StatusAgreesWithVerify ==
    BothAnswered =>
        (sums_match = "Some(true)" <=> (~verified.err /\ verified.all_match))

\* C30 when every listed file is on disk and can be read.
C30_AllFilesReadable ==
    (BothAnswered /\ \A p \in DOMAIN product.checksums : HashOk(out[p])) =>
        (sums_match = "Some(true)" <=> (~verified.err /\ verified.all_match))

\* A listed file is missing, every other listed file matches: the status
\* query answered Some(true), verify_checksums all_match = false.
C30_MissingFileDisagree ==
    /\ BothAnswered
    /\ \E p \in DOMAIN product.checksums : out[p] = Missing
    /\ sums_match = "Some(true)"
    /\ ~verified.err /\ ~verified.all_match
    /\ \E i \in 1..Len(verified.entries) : verified.entries[i].missing

====
